---- MODULE Spec2Model ----
(***************************************************************************)
(* A model of skills/security-suite/scripts/security_suite.py: the         *)
(* behavioural-contract engine (command-surface discovery, the dynamic     *)
(* supervisor, descendant resolution, snapshot diffing, baseline           *)
(* comparison and policy evaluation).                                      *)
(*                                                                         *)
(* Each component has its own variables and its own specification; the     *)
(* variables of the components a specification does not exercise stay at   *)
(* their idle values.                                                      *)
(***************************************************************************)
EXTENDS Integers, Sequences, FiniteSets, TLC

VARIABLES
    \* _descendants
    root_pid, table, out, changed, dIdx, dPc,
    \* _diff_snapshots
    before, after, fileDiff, sPc,
    \* _compare_baseline
    cur, base, baselineDiff, bPc,
    \* _enforce_policy
    policy, contract, dynamic, compare, findings, verdictData, pPc,
    \* _collect_dynamic: the supervisor
    supPc, timeout_s, clock, elapsed, timed_out, returncode, seen_pids,
    ticks, signals, dynRun, pids, seen_cmds, seen_eps,
    \* _collect_dynamic: the supervised child
    childState, childStatus, killedBySupervisor, exitInBody,
    \* _capture_command_surface
    max_depth, total_timeout, dClock, queue, visited, commands, sections, probes,
    path, surface, qPc,
    \* the binary under discovery: the help page of each command probed so far
    helpOf,
    \* _collect_contract
    static_data, dynamic_data, now, contractFiles,
    \* main
    args_cmd, opts, world, mPc, artifacts, launched, baseline_failed, policy_failed,
    exitStatus,
    \* _probe_help
    probe_path, probe_idx, probe_txt, probe_runs, probe_ret, probePc,
    \* _normalize_cmd_token and the line of _parse_subcommands it is called for
    ln, token, norm, renorm, nPc,
    \* _collect_process_table: the read of the tick
    read,
    \* _collect_dynamic: the sandbox and the environment of successive runs
    disk, os_environ, out_dir, before_home, before_work, env, file_changes,
    launches, writes, sbPc,
    \* main: successive run invocations and the baseline diffs they leave
    diff_files, run_dir, args, removed_findings, rPc

descVars == <<root_pid, table, out, changed, dIdx, dPc>>
snapVars == <<before, after, fileDiff, sPc>>
baseVars == <<cur, base, baselineDiff, bPc>>
polVars == <<policy, contract, dynamic, compare, findings, verdictData, pPc>>
supVars == <<supPc, timeout_s, clock, elapsed, timed_out, returncode, seen_pids,
             ticks, signals, dynRun, pids, seen_cmds, seen_eps>>
childVars == <<childState, childStatus, killedBySupervisor, exitInBody>>
dynVars == <<supVars, childVars>>
discVars == <<max_depth, total_timeout, dClock, queue, visited, commands, sections,
              probes, path, surface, qPc, helpOf>>
conVars == <<static_data, dynamic_data, now, contractFiles>>
mainVars == <<args_cmd, opts, world, mPc, artifacts, launched, baseline_failed,
              policy_failed, exitStatus>>
probeVars == <<probe_path, probe_idx, probe_txt, probe_runs, probe_ret, probePc>>
normVars == <<ln, token, norm, renorm, nPc>>
readVars == <<read>>
sbVars == <<disk, os_environ, out_dir, before_home, before_work, env, file_changes,
            launches, writes, sbPc>>
runsVars == <<diff_files, run_dir, args, removed_findings, rPc>>
vars == <<descVars, snapVars, baseVars, polVars, dynVars, discVars, conVars, mainVars,
          probeVars, normVars, readVars, sbVars, runsVars>>

\* ------------------------------------------------------------------ helpers

Range(s) == {s[i] : i \in 1..Len(s)}

\* sorted(S) for a set S drawn from a universe whose ascending order is `order`.
Sorted(order, S) == SelectSeq(order, LAMBDA x : x \in S)

\* All sequences without repetition over S, of length at most n.
DistinctSeqs(S, n) ==
    UNION {{s \in [1..k -> S] : \A i, j \in 1..k : i # j => s[i] # s[j]} : k \in 0..n}

\* All partial functions from S to T (a Python dict with keys in S).
PartialFns(S, T) == UNION {[D -> T] : D \in SUBSET S}

\* ------------------------------------------------------------ _descendants
\* Process ids are 1..MaxPid; a parent pid may also be 0 (a parent that is
\* not a process of the table).  A table holds at most MaxProcs records.
MaxPid == 3
MaxProcs == 3

Pids == 1..MaxPid
ProcRecords == [pid : Pids, ppid : 0..MaxPid]

\* dict[int, {"ppid", "command"}] in insertion order: pids are unique keys.
ProcessTables ==
    {t \in DistinctSeqs(ProcRecords, MaxProcs) :
        \A i, j \in 1..Len(t) : i # j => t[i].pid # t[j].pid}

TablePids(t) == {t[i].pid : i \in 1..Len(t)}

DescIdle ==
    /\ root_pid = 0
    /\ table = <<>>
    /\ out = {}
    /\ changed = FALSE
    /\ dIdx = 0
    /\ dPc = "idle"

DescInit ==
    /\ root_pid \in Pids
    /\ table \in ProcessTables
    /\ out = {}
    /\ changed = FALSE
    /\ dIdx = 0
    /\ dPc = "start"

\* out = {root_pid}; changed = True
DescendantsStart ==
    /\ dPc = "start"
    /\ out' = {root_pid}
    /\ changed' = TRUE
    /\ dPc' = "while"
    /\ UNCHANGED <<root_pid, table, dIdx>>

\* while changed: changed = False; for pid, meta in table.items(): ...
DescendantsWhile ==
    /\ dPc = "while"
    /\ IF changed
       THEN /\ changed' = FALSE
            /\ dIdx' = 1
            /\ dPc' = "for"
       ELSE /\ dPc' = "done"
            /\ UNCHANGED <<changed, dIdx>>
    /\ UNCHANGED <<root_pid, table, out>>

\* if pid in out: continue
DescendantsSkip ==
    /\ dPc = "for"
    /\ dIdx <= Len(table)
    /\ table[dIdx].pid \in out
    /\ dIdx' = dIdx + 1
    /\ UNCHANGED <<root_pid, table, out, changed, dPc>>

\* if int(meta.get("ppid", -1)) in out: out.add(pid); changed = True
DescendantsAdd_NoChanged ==
    /\ dPc = "for"
    /\ dIdx <= Len(table)
    /\ table[dIdx].pid \notin out
    /\ table[dIdx].ppid \in out
    /\ out' = out \cup {table[dIdx].pid}
    /\ dIdx' = dIdx + 1
    /\ UNCHANGED <<root_pid, table, changed, dPc>>

DescendantsAdd ==
    /\ dPc = "for"
    /\ dIdx <= Len(table)
    /\ table[dIdx].pid \notin out
    /\ table[dIdx].ppid \in out
    /\ out' = out \cup {table[dIdx].pid}
    /\ changed' = TRUE
    /\ dIdx' = dIdx + 1
    /\ UNCHANGED <<root_pid, table, dPc>>

\* neither branch taken: next item
DescendantsPass ==
    /\ dPc = "for"
    /\ dIdx <= Len(table)
    /\ table[dIdx].pid \notin out
    /\ table[dIdx].ppid \notin out
    /\ dIdx' = dIdx + 1
    /\ UNCHANGED <<root_pid, table, out, changed, dPc>>

\* the for loop is exhausted: back to the while test
DescendantsForEnd ==
    /\ dPc = "for"
    /\ dIdx > Len(table)
    /\ dPc' = "while"
    /\ UNCHANGED <<root_pid, table, out, changed, dIdx>>

\* --------------------------------------------------------- _diff_snapshots
\* A snapshot maps a relative path to {"size", "mtime_ns"}.
MaxSize == 1
MaxMtime == 1

\* The relative paths of the universe, in ascending (sorted()) order.
FileOrder == <<"a.txt", "b.txt">>
Files == Range(FileOrder)
Stats == [size : 0..MaxSize, mtime_ns : 0..MaxMtime]
Snapshots == PartialFns(Files, Stats)

EmptyDiff == [created |-> <<>>, modified |-> <<>>, removed |-> <<>>]

\* modified compared on size alone
DiffSnapshots_SizeOnly(b, a) ==
    [created  |-> Sorted(FileOrder, DOMAIN a \ DOMAIN b),
     modified |-> Sorted(FileOrder, {k \in DOMAIN a \cap DOMAIN b : b[k].size # a[k].size}),
     removed  |-> Sorted(FileOrder, DOMAIN b \ DOMAIN a)]

DiffSnapshots(b, a) ==
    [created  |-> Sorted(FileOrder, DOMAIN a \ DOMAIN b),
     modified |-> Sorted(FileOrder, {k \in DOMAIN a \cap DOMAIN b : b[k] # a[k]}),
     removed  |-> Sorted(FileOrder, DOMAIN b \ DOMAIN a)]

SnapIdle ==
    /\ before = <<>>
    /\ after = <<>>
    /\ fileDiff = EmptyDiff
    /\ sPc = "idle"

SnapInit ==
    /\ before \in Snapshots
    /\ after \in Snapshots
    /\ fileDiff = EmptyDiff
    /\ sPc = "start"

DiffSnapshotsCall ==
    /\ sPc = "start"
    /\ fileDiff' = DiffSnapshots(before, after)
    /\ sPc' = "done"
    /\ UNCHANGED <<before, after>>

\* -------------------------------------------------------- _compare_baseline
\* A command path is kept as its sequence of tokens: tokens hold no white
\* space (_normalize_cmd_token), so " ".join and str.split are inverse on
\* them and the joined string and the token sequence determine each other.
\* A contract's command_paths list holds at most MaxCmds entries.
MaxCmds == 2

\* The command strings of the universe, in ascending (sorted()) order.
CmdOrder == << <<"bar">>, <<"foo">>, <<"foo", "baz">> >>
Cmds == Range(CmdOrder)

\* dict.get(key, default): a JSON object is a function on the keys it holds
Get(d, key, default) == IF key \in DOMAIN d THEN d[key] ELSE default

CmdLists == UNION {[1..k -> Cmds] : k \in 0..MaxCmds}
Runtimes == {<<"Go">>, <<"unknown">>}
Hashes == {"sha-1", "sha-2"}

\* contract.json as _compare_baseline reads it
Contracts ==
    [command_paths : CmdLists, runtime_guess : Runtimes, binary_sha256 : Hashes]
        \cup [runtime_guess : Runtimes, binary_sha256 : Hashes]

NoDiff == [status |-> "none"]

\* status also fails on additions
CompareBaseline_FailOnAdded(c, b) ==
    LET cur_cmds == Range(Get(c, "command_paths", <<>>))
        base_cmds == Range(Get(b, "command_paths", <<>>))
        added == Sorted(CmdOrder, cur_cmds \ base_cmds)
        removed == Sorted(CmdOrder, base_cmds \ cur_cmds)
        overlap == Sorted(CmdOrder, cur_cmds \cap base_cmds)
    IN [status |-> IF removed = <<>> /\ added = <<>> THEN "pass" ELSE "fail",
        current_count |-> Cardinality(cur_cmds),
        baseline_count |-> Cardinality(base_cmds),
        overlap_count |-> Len(overlap),
        added |-> added,
        removed |-> removed,
        runtime_changed |-> c.runtime_guess # b.runtime_guess,
        current_runtime |-> c.runtime_guess,
        baseline_runtime |-> b.runtime_guess,
        current_sha256 |-> c.binary_sha256,
        baseline_sha256 |-> b.binary_sha256]

\* the counts taken from the lists instead of the sets
CompareBaseline_ListCounts(c, b) ==
    LET cur_cmds == Range(Get(c, "command_paths", <<>>))
        base_cmds == Range(Get(b, "command_paths", <<>>))
        added == Sorted(CmdOrder, cur_cmds \ base_cmds)
        removed == Sorted(CmdOrder, base_cmds \ cur_cmds)
        overlap == Sorted(CmdOrder, cur_cmds \cap base_cmds)
    IN [status |-> IF removed = <<>> THEN "pass" ELSE "fail",
        current_count |-> Len(Get(c, "command_paths", <<>>)),
        baseline_count |-> Len(Get(b, "command_paths", <<>>)),
        overlap_count |-> Len(overlap),
        added |-> added,
        removed |-> removed,
        runtime_changed |-> c.runtime_guess # b.runtime_guess,
        current_runtime |-> c.runtime_guess,
        baseline_runtime |-> b.runtime_guess,
        current_sha256 |-> c.binary_sha256,
        baseline_sha256 |-> b.binary_sha256]

CompareBaseline(c, b) ==
    LET cur_cmds == Range(Get(c, "command_paths", <<>>))
        base_cmds == Range(Get(b, "command_paths", <<>>))
        added == Sorted(CmdOrder, cur_cmds \ base_cmds)
        removed == Sorted(CmdOrder, base_cmds \ cur_cmds)
        overlap == Sorted(CmdOrder, cur_cmds \cap base_cmds)
    IN [status |-> IF removed = <<>> THEN "pass" ELSE "fail",
        current_count |-> Cardinality(cur_cmds),
        baseline_count |-> Cardinality(base_cmds),
        overlap_count |-> Len(overlap),
        added |-> added,
        removed |-> removed,
        runtime_changed |-> c.runtime_guess # b.runtime_guess,
        current_runtime |-> c.runtime_guess,
        baseline_runtime |-> b.runtime_guess,
        current_sha256 |-> c.binary_sha256,
        baseline_sha256 |-> b.binary_sha256]

BaseIdle ==
    /\ cur = <<>>
    /\ base = <<>>
    /\ baselineDiff = NoDiff
    /\ bPc = "idle"

BaseInit ==
    /\ cur \in Contracts
    /\ base \in Contracts
    /\ baselineDiff = NoDiff
    /\ bPc = "start"

CompareBaselineCall ==
    /\ bPc = "start"
    /\ baselineDiff' = CompareBaseline(cur, base)
    /\ bPc' = "done"
    /\ UNCHANGED <<cur, base>>

\* ---------------------------------------------------------- _enforce_policy
\* max_created_files and min_command_count of a policy range over
\* 0..MaxCreatedLimit and 0..MaxMinCmds.
MaxCreatedLimit == 0
MaxMinCmds == 1

\* policy.get("max_created_files", 999999)
DefaultMaxCreated == 999999

\* The tokens of the universe, in ascending (sorted()) order.
TokenOrder == <<"bar", "baz", "foo">>
Tokens == Range(TokenOrder)

\* sorted({c.split()[0] for c in command_list if c})
TopLevelCommands(command_list) ==
    Sorted(TokenOrder, {command_list[i][1] : i \in 1..Len(command_list)})

\* A regular expression is kept as the set of the strings of the universe
\* that re.search finds it in.
\* _match_any: some pattern of the list is found in the value
MatchAny(patterns, value) == \E i \in 1..Len(patterns) : value \in patterns[i]

Without(d, key) == [k \in DOMAIN d \ {key} |-> d[k]]

EndpointLists == {<<>>, <<"ep1", "ep2">>, <<"ep2", "ep3">>}
CreatedLists == {<<>>, <<"a.txt">>}

PoliciesFull ==
    [required_top_level_commands : {<<>>, <<"bar", "foo">>},
     deny_command_patterns : {<<>>, <<{<<"foo">>, <<"foo", "baz">>}>>},
     max_created_files : 0..MaxCreatedLimit,
     forbid_file_path_patterns : {<<>>, <<{"a.txt"}>>},
     allow_network_endpoint_patterns : {<<>>, <<{"ep1"}>>},
     deny_network_endpoint_patterns : {<<>>, <<{"ep2"}>>},
     block_if_removed_commands : BOOLEAN,
     min_command_count : 0..MaxMinCmds]

\* policy.json: max_created_files and block_if_removed_commands may be left out
Policies ==
    PoliciesFull
        \cup {Without(p, "max_created_files") : p \in {q \in PoliciesFull : q.max_created_files = 0}}
        \cup {Without(p, "block_if_removed_commands") :
                 p \in {q \in PoliciesFull : ~q.block_if_removed_commands}}

\* contract.json as _collect_contract writes it (the fields the policy reads)
PolicyContracts ==
    {[command_paths |-> c, top_level_commands |-> TopLevelCommands(c)] :
        c \in {<<>>, << <<"bar">>, <<"foo">> >>, << <<"foo">>, <<"foo", "baz">> >>}}

\* dynamic-analysis.json (the fields the policy reads)
Dynamics ==
    [file_changes : [home : [created : CreatedLists], work : [created : CreatedLists]],
     network_endpoints_observed : EndpointLists]

\* baseline-diff.json under the run directory, or {} when there is none
Compares == {<<>>} \cup [removed : {<<>>, << <<"bar">> >>}]

Finding(sev, code, subject) == [severity |-> sev, code |-> code, subject |-> subject]

\* one finding per element of list that satisfies Test, in list order
FindingsFor(list, Test(_), code) ==
    LET hit == SelectSeq(list, Test)
    IN [i \in 1..Len(hit) |-> Finding("fail", code, <<hit[i]>>)]

\* created_files = home created + work created
CreatedFiles(d) ==
    Get(Get(Get(d, "file_changes", <<>>), "home", <<>>), "created", <<>>)
        \o Get(Get(Get(d, "file_changes", <<>>), "work", <<>>), "created", <<>>)

NoVerdict == [verdict |-> "none"]

PolIdle ==
    /\ policy = <<>>
    /\ contract = <<>>
    /\ dynamic = <<>>
    /\ compare = <<>>
    /\ findings = <<>>
    /\ verdictData = NoVerdict
    /\ pPc = "idle"

PolInit ==
    /\ policy \in Policies
    /\ contract \in PolicyContracts
    /\ dynamic \in Dynamics
    /\ compare \in Compares
    /\ findings = <<>>
    /\ verdictData = NoVerdict
    /\ pPc = "required"

\* the evaluation stops at the first rule that yields a finding
PolStep_ShortCircuit(next, new) ==
    /\ findings' = findings \o new
    /\ pPc' = IF new # <<>> THEN "verdict" ELSE next
    /\ UNCHANGED <<policy, contract, dynamic, compare, verdictData>>

\* findings.append(...) of one rule, then on to the next rule
PolStep(next, new) ==
    /\ findings' = findings \o new
    /\ pPc' = next
    /\ UNCHANGED <<policy, contract, dynamic, compare, verdictData>>

\* one finding for each required command that is missing
RuleRequired_PerCommand ==
    /\ pPc = "required"
    /\ LET req_top == Get(policy, "required_top_level_commands", <<>>)
           top == Range(Get(contract, "top_level_commands", <<>>))
           Absent(c) == c \notin top
       IN PolStep("deny_cmd", FindingsFor(req_top, Absent, "missing_required_commands"))

\* missing = sorted([c for c in req_top if c not in top]); one finding if any
RuleRequired ==
    /\ pPc = "required"
    /\ LET req_top == Get(policy, "required_top_level_commands", <<>>)
           top == Range(Get(contract, "top_level_commands", <<>>))
           missing == Sorted(TokenOrder, {c \in Range(req_top) : c \notin top})
       IN PolStep("deny_cmd",
                  IF missing # <<>>
                  THEN <<Finding("fail", "missing_required_commands", missing)>>
                  ELSE <<>>)

\* for cmd in command_paths: if _match_any(deny_cmd_patterns, cmd): finding
RuleDenyCommand ==
    /\ pPc = "deny_cmd"
    /\ LET deny == Get(policy, "deny_command_patterns", <<>>)
           Hit(cmd) == MatchAny(deny, cmd)
       IN PolStep("max_created",
                  FindingsFor(Get(contract, "command_paths", <<>>), Hit,
                              "denied_command_pattern"))

\* if len(created_files) > max_created: finding
RuleMaxCreated ==
    /\ pPc = "max_created"
    /\ LET max_created == Get(policy, "max_created_files", DefaultMaxCreated)
       IN PolStep("forbid_path",
                  IF Len(CreatedFiles(dynamic)) > max_created
                  THEN <<Finding("fail", "too_many_created_files", <<>>)>>
                  ELSE <<>>)

\* for p in created_files: if _match_any(forbid_path_patterns, p): finding
RuleForbidPath ==
    /\ pPc = "forbid_path"
    /\ LET forbid == Get(policy, "forbid_file_path_patterns", <<>>)
           Hit(f) == MatchAny(forbid, f)
       IN PolStep("allow_net",
                  FindingsFor(CreatedFiles(dynamic), Hit, "forbidden_file_path"))

\* an empty allowlist allows nothing
RuleAllowNet_EmptyAllowsNothing ==
    /\ pPc = "allow_net"
    /\ LET allow_net == Get(policy, "allow_network_endpoint_patterns", <<>>)
           Miss(ep) == ~MatchAny(allow_net, ep)
       IN PolStep("deny_net",
                  FindingsFor(Get(dynamic, "network_endpoints_observed", <<>>),
                              Miss, "network_not_allowlisted"))

\* if allow_net: for ep in endpoints: if not _match_any(allow_net, ep): finding
RuleAllowNet ==
    /\ pPc = "allow_net"
    /\ LET allow_net == Get(policy, "allow_network_endpoint_patterns", <<>>)
           Miss(ep) == ~MatchAny(allow_net, ep)
       IN PolStep("deny_net",
                  IF allow_net # <<>>
                  THEN FindingsFor(Get(dynamic, "network_endpoints_observed", <<>>),
                                   Miss, "network_not_allowlisted")
                  ELSE <<>>)

\* for ep in endpoints: if _match_any(deny_net, ep): finding
RuleDenyNet ==
    /\ pPc = "deny_net"
    /\ LET deny_net == Get(policy, "deny_network_endpoint_patterns", <<>>)
           Hit(ep) == MatchAny(deny_net, ep)
       IN PolStep("removed",
                  FindingsFor(Get(dynamic, "network_endpoints_observed", <<>>),
                              Hit, "network_denylisted"))

\* the gate is active whatever the policy says
RuleRemoved_AlwaysActive ==
    /\ pPc = "removed"
    /\ PolStep("min_count",
               IF Get(compare, "removed", <<>>) # <<>>
               THEN <<Finding("fail", "removed_commands", <<>>)>>
               ELSE <<>>)

\* if bool(policy.get("block_if_removed_commands", False)) and compare.get("removed")
RuleRemoved ==
    /\ pPc = "removed"
    /\ PolStep("min_count",
               IF Get(policy, "block_if_removed_commands", FALSE)
                    /\ Get(compare, "removed", <<>>) # <<>>
               THEN <<Finding("fail", "removed_commands", <<>>)>>
               ELSE <<>>)

\* a low command count is a failure
RuleMinCount_Fail ==
    /\ pPc = "min_count"
    /\ LET min_cmds == Get(policy, "min_command_count", 0)
           cmd_count == Len(Get(contract, "command_paths", <<>>))
       IN PolStep("verdict",
                  IF cmd_count < min_cmds
                  THEN <<Finding("fail", "low_command_count", <<>>)>>
                  ELSE <<>>)

\* if cmd_count < min_cmds: a warn finding
RuleMinCount ==
    /\ pPc = "min_count"
    /\ LET min_cmds == Get(policy, "min_command_count", 0)
           cmd_count == Len(Get(contract, "command_paths", <<>>))
       IN PolStep("verdict",
                  IF cmd_count < min_cmds
                  THEN <<Finding("warn", "low_command_count", <<>>)>>
                  ELSE <<>>)

\* any finding at all makes the verdict FAIL
Verdict_FailOnAny(fs) ==
    IF fs # <<>> THEN "FAIL" ELSE "PASS"

\* verdict = "PASS"; FAIL if any fail finding; elif findings: WARN
Verdict(fs) ==
    IF \E i \in 1..Len(fs) : fs[i].severity = "fail" THEN "FAIL"
    ELSE IF fs # <<>> THEN "WARN"
    ELSE "PASS"

\* data = {verdict, finding_count, findings}; _write_json(policy-verdict.json)
WriteVerdict ==
    /\ pPc = "verdict"
    /\ verdictData' = [verdict |-> Verdict(findings),
                       finding_count |-> Len(findings),
                       findings |-> findings]
    /\ pPc' = "done"
    /\ UNCHANGED <<policy, contract, dynamic, compare, findings>>

\* --------------------------------------------------------- _collect_dynamic
\* The supervisor's polling loop and the supervised child.  Time is counted
\* in poll intervals (one time.sleep(0.2)); the timeout ranges over
\* 0..MaxTimeout intervals.  The clock saturates at ClockCap, above every
\* timeout, where elapsed >= timeout_s holds for good.
MaxTimeout == 2
ClockCap == MaxTimeout + 1

\* rc = -9 if timed_out; also the status of a child killed by SIGKILL
KillCode == -9
\* proc.returncode before the child is reaped (None)
NoneCode == 256
\* the statuses a child ends with by itself
ExitStatuses == {0, 1}

\* proc.pid
ChildPid == 1

\* The closed form of _descendants: the least set that holds root and every
\* pid of the table whose parent pid it holds.
RECURSIVE DescendantsFix(_, _)
DescendantsFix(o, t) ==
    LET more == o \cup {t[i].pid : i \in {j \in 1..Len(t) : t[j].ppid \in o}}
    IN IF more = o THEN o ELSE DescendantsFix(more, t)

DescendantsOf(root, t) == DescendantsFix({root}, t)

\* What _collect_process_table returns on a tick: any table, listed by pid;
\* the empty table when ps is missing, times out or prints nothing parseable.
PidOrder == [i \in 1..MaxPid |-> i]
TableOf(f) ==
    LET keys == Sorted(PidOrder, DOMAIN f)
    IN [i \in 1..Len(keys) |-> [pid |-> keys[i], ppid |-> f[keys[i]]]]
DynTables == {TableOf(f) : f \in PartialFns(Pids, 0..MaxPid)}

NoRun == [exit_code |-> NoneCode]

DynIdle ==
    /\ supPc = "idle"
    /\ timeout_s = 0
    /\ clock = 0
    /\ elapsed = 0
    /\ timed_out = FALSE
    /\ returncode = NoneCode
    /\ seen_pids = {}
    /\ pids = {}
    /\ seen_cmds = {}
    /\ seen_eps = {}
    /\ ticks = 0
    /\ signals = <<>>
    /\ dynRun = NoRun
    /\ childState = "none"
    /\ childStatus = NoneCode
    /\ killedBySupervisor = FALSE
    /\ exitInBody = FALSE

DynInit ==
    /\ supPc = "popen"
    /\ timeout_s \in 0..MaxTimeout
    /\ clock = 0
    /\ elapsed = 0
    /\ timed_out = FALSE
    /\ returncode = NoneCode
    /\ seen_pids = {}
    /\ pids = {}
    /\ seen_cmds = {}
    /\ seen_eps = {}
    /\ ticks = 0
    /\ signals = <<>>
    /\ dynRun = NoRun
    /\ childState = "none"
    /\ childStatus = NoneCode
    /\ killedBySupervisor = FALSE
    /\ exitInBody = FALSE

\* started = time.time(); timed_out = False; proc = subprocess.Popen(...)
Popen ==
    /\ supPc = "popen"
    /\ childState' = "running"
    /\ supPc' = "poll"
    /\ UNCHANGED <<timeout_s, clock, elapsed, timed_out, returncode, seen_pids,
                   ticks, signals, dynRun, pids, seen_cmds, seen_eps, childStatus, killedBySupervisor, exitInBody>>

\* while proc.poll() is None: an exited child is reaped and the loop ends
Poll ==
    /\ supPc = "poll"
    /\ IF childState = "exited"
       THEN /\ returncode' = childStatus
            /\ childState' = "reaped"
            /\ supPc' = "communicate"
            /\ UNCHANGED ticks
       ELSE /\ supPc' = "elapsed"
            /\ ticks' = ticks + 1
            /\ UNCHANGED <<returncode, childState>>
    /\ UNCHANGED <<timeout_s, clock, elapsed, timed_out, seen_pids, signals, dynRun, pids, seen_cmds, seen_eps,
                   childStatus, killedBySupervisor, exitInBody>>

\* elapsed = time.time() - started
ReadElapsed ==
    /\ supPc = "elapsed"
    /\ elapsed' = clock
    /\ supPc' = "observe"
    /\ UNCHANGED <<timeout_s, clock, timed_out, returncode, seen_pids, ticks, signals,
                   dynRun, pids, seen_cmds, seen_eps, childVars>>

\* What ps and lsof show of a process: the command line of a table row (the
\* child's, a shell's, or an empty one) and the endpoints lsof lists for a pid.
CommandOf(pid) == IF pid = ChildPid THEN "tool" ELSE IF pid % 2 = 0 THEN "sh" ELSE ""
EndpointsOf(pid) == IF pid = 2 THEN {"ep1"} ELSE IF pid = 3 THEN {"ep1", "ep2"} ELSE {}
CommandOrder == <<"sh", "tool">>
EndpointOrder == <<"ep1", "ep2">>

\* for pid in pids: meta = table.get(pid); if meta and meta.get("command"): ...
TickCommands(t, ps) == {CommandOf(pid) : pid \in ps \cap TablePids(t)} \ {""}

\* _collect_network_endpoints(pids)
TickEndpoints(ps) == UNION {EndpointsOf(pid) : pid \in ps}

\* the sets of a tick replace the accumulated ones
Accumulate_Latest(seen, new) == new

\* seen_pids.update(pids); seen_cmds.add(...); seen_eps.add(ep)
Accumulate(seen, new) == seen \cup new

\* table = _collect_process_table()
\* pids = _descendants(proc.pid, table) if proc.pid in table else {proc.pid}
\* seen_pids.update(pids); the commands and the endpoints of pids are added
Observe ==
    /\ supPc = "observe"
    /\ \E t \in DynTables :
          /\ pids' = IF ChildPid \in TablePids(t)
                     THEN DescendantsOf(ChildPid, t)
                     ELSE {ChildPid}
          /\ seen_pids' = Accumulate(seen_pids, pids')
          /\ seen_cmds' = Accumulate(seen_cmds, TickCommands(t, pids'))
          /\ seen_eps' = Accumulate(seen_eps, TickEndpoints(pids'))
    /\ supPc' = "check"
    /\ UNCHANGED <<timeout_s, clock, elapsed, timed_out, returncode, ticks, signals,
                   dynRun, childVars>>

\* the timeout test with a strict comparison
CheckTimeout_Strict ==
    /\ supPc = "check"
    /\ IF elapsed > timeout_s
       THEN timed_out' = TRUE /\ supPc' = "kill"
       ELSE supPc' = "sleep" /\ UNCHANGED timed_out
    /\ UNCHANGED <<timeout_s, clock, elapsed, returncode, seen_pids, ticks, signals,
                   dynRun, pids, seen_cmds, seen_eps, childVars>>

\* if elapsed >= timeout_s: timed_out = True
CheckTimeout ==
    /\ supPc = "check"
    /\ IF elapsed >= timeout_s
       THEN timed_out' = TRUE /\ supPc' = "kill"
       ELSE supPc' = "sleep" /\ UNCHANGED timed_out
    /\ UNCHANGED <<timeout_s, clock, elapsed, returncode, seen_pids, ticks, signals,
                   dynRun, pids, seen_cmds, seen_eps, childVars>>

KillpgCall == [call |-> "killpg", pgid |-> ChildPid, sig |-> "SIGKILL"]

\* os.killpg(proc.pid, signal.SIGKILL); break.  A running child dies of the
\* signal; a child that already exited (not yet reaped) is left as it is.
KillGroup ==
    /\ supPc = "kill"
    /\ signals' = Append(signals, KillpgCall)
    /\ IF childState = "running"
       THEN /\ childState' = "exited"
            /\ childStatus' = KillCode
            /\ killedBySupervisor' = TRUE
       ELSE UNCHANGED <<childState, childStatus, killedBySupervisor>>
    /\ supPc' = "communicate"
    /\ UNCHANGED <<timeout_s, clock, elapsed, timed_out, returncode, seen_pids, ticks,
                   dynRun, pids, seen_cmds, seen_eps, exitInBody>>

\* os.killpg finds no process left in the group: ProcessLookupError, which
\* the except clause swallows
KillGroupNoProcess ==
    /\ supPc = "kill"
    /\ childState = "exited"
    /\ signals' = Append(signals, KillpgCall)
    /\ supPc' = "communicate"
    /\ UNCHANGED <<timeout_s, clock, elapsed, timed_out, returncode, seen_pids, ticks,
                   dynRun, pids, seen_cmds, seen_eps, childVars>>

\* time.sleep(0.2): one poll interval passes
Sleep ==
    /\ supPc = "sleep"
    /\ clock' = IF clock < ClockCap THEN clock + 1 ELSE clock
    /\ supPc' = "poll"
    /\ UNCHANGED <<timeout_s, elapsed, timed_out, returncode, seen_pids, ticks, signals,
                   dynRun, pids, seen_cmds, seen_eps, childVars>>

\* proc.communicate(timeout=2) returns: the child is waited for
CommunicateDone ==
    /\ supPc = "communicate"
    /\ childState \in {"exited", "reaped"}
    /\ returncode' = childStatus
    /\ childState' = "reaped"
    /\ supPc' = "record"
    /\ UNCHANGED <<timeout_s, clock, elapsed, timed_out, seen_pids, ticks, signals,
                   dynRun, pids, seen_cmds, seen_eps, childStatus, killedBySupervisor, exitInBody>>

\* proc.communicate(timeout=2) raises TimeoutExpired (a descendant keeps the
\* pipes open): stdout, stderr = "", ""
CommunicateTimeout ==
    /\ supPc = "communicate"
    /\ supPc' = "record"
    /\ UNCHANGED <<timeout_s, clock, elapsed, timed_out, returncode, seen_pids, ticks,
                   signals, dynRun, pids, seen_cmds, seen_eps, childVars>>

\* the exit code is the child's return code even when the run timed out
DynamicRun_ReturnCode ==
    [exit_code |-> returncode,
     timed_out |-> timed_out,
     timeout_seconds |-> timeout_s,
     processes_observed |-> Sorted(CommandOrder, seen_cmds),
     pids_observed |-> Sorted(PidOrder, seen_pids),
     network_endpoints_observed |-> Sorted(EndpointOrder, seen_eps)]

\* rc = -9 if timed_out else proc.returncode; data = {...}
DynamicRun ==
    [exit_code |-> IF timed_out THEN KillCode ELSE returncode,
     timed_out |-> timed_out,
     timeout_seconds |-> timeout_s,
     processes_observed |-> Sorted(CommandOrder, seen_cmds),
     pids_observed |-> Sorted(PidOrder, seen_pids),
     network_endpoints_observed |-> Sorted(EndpointOrder, seen_eps)]

\* _write_json(dynamic_dir / "dynamic-analysis.json", data); return data
RecordRun ==
    /\ supPc = "record"
    /\ dynRun' = DynamicRun
    /\ supPc' = "done"
    /\ UNCHANGED <<timeout_s, clock, elapsed, timed_out, returncode, seen_pids, pids, seen_cmds, seen_eps, ticks,
                   signals, childVars>>

\* The child ends by itself, at any moment of the supervisor's run.
ChildExit ==
    /\ childState = "running"
    /\ childState' = "exited"
    /\ childStatus' \in ExitStatuses
    /\ exitInBody' = (supPc \in {"elapsed", "observe", "check", "kill"})
    /\ UNCHANGED <<supVars, killedBySupervisor>>

\* Time passes while the supervisor is between two of its steps.
TimePasses ==
    /\ supPc \notin {"idle", "done"}
    /\ clock < ClockCap
    /\ clock' = clock + 1
    /\ UNCHANGED <<supPc, timeout_s, elapsed, timed_out, returncode, seen_pids, ticks,
                   signals, dynRun, pids, seen_cmds, seen_eps, childVars>>

\* ------------------------------------------------- _capture_command_surface
\* The traversal runs with a maximum depth in 0..MaxDepth and a total time
\* budget in 0..MaxBudget; its clock saturates at BudgetCap, above every
\* budget.
MaxDepth == 2
MaxBudget == 1
BudgetCap == MaxBudget + 1

\* The probe variants of _probe_help, in the order they are tried: for a
\* command path and for the root.
PathProbes == <<"--help", "-h", "help-prefix", "help-suffix">>
RootProbes == <<"--help", "-h", "help">>
ProbesFor(p) == IF p # <<>> THEN PathProbes ELSE RootProbes

\* What the binary answers to the probes of one command: `first` is the
\* number of the first variant of PathProbes whose output matches the help
\* signature (0: none does), `children` what _parse_subcommands reads out of
\* that output, in text order.
Rejected == [first |-> 0, children |-> <<>>]
HelpPages ==
    {Rejected,
     [first |-> 1, children |-> <<>>],
     [first |-> 1, children |-> <<"foo", "bar">>],
     [first |-> 2, children |-> <<"baz">>],
     [first |-> 3, children |-> <<"foo">>],
     [first |-> 4, children |-> <<"foo", "bar", "baz">>]}

\* The binaries considered answer a command by its last token (the root by
\* itself): a finite description of a command tree of any depth, which
\* holds commands that advertise themselves and trees that advertise the
\* same children at every level.
RootKey == "<root>"
KeyOf(p) == IF p = <<>> THEN RootKey ELSE p[Len(p)]

\* ok, probe, output = _probe_help(binary, path, ...): the first variant of
\* the path's list whose output matches, if the list holds it
ProbeHelp(p, page) ==
    IF page.first \in 1..Len(ProbesFor(p))
    THEN [ok |-> TRUE, probe |-> ProbesFor(p)[page.first], children |-> page.children]
    ELSE [ok |-> FALSE, probe |-> "", children |-> <<>>]

\* All command paths of at most d more tokens under prefix, in the order of
\* their space-joined strings (a prefix sorts before its extensions).
RECURSIVE Preorder(_, _)
Preorder(prefix, d) ==
    IF d = 0 THEN <<prefix>>
    ELSE LET Below[i \in 0..Len(TokenOrder)] ==
                 IF i = 0 THEN <<>>
                 ELSE Below[i - 1] \o Preorder(Append(prefix, TokenOrder[i]), d - 1)
         IN <<prefix>> \o Below[Len(TokenOrder)]

PathOrder == Tail(Preorder(<<>>, MaxDepth + 1))
ProbeOrder == <<"--help", "-h", "help", "help-prefix", "help-suffix">>

\* max((len(c.split()) for c in command_list), default=0)
MaxLen(S) == IF S = {} THEN 0 ELSE CHOOSE n \in {Len(c) : c \in S} : \A c \in S : Len(c) <= n

NoSurface == [timed_out |-> FALSE, returned |-> FALSE]

DiscIdle ==
    /\ max_depth = 0
    /\ total_timeout = 0
    /\ dClock = 0
    /\ queue = <<>>
    /\ visited = {}
    /\ commands = {}
    /\ sections = <<>>
    /\ probes = {}
    /\ path = <<>>
    /\ surface = NoSurface
    /\ qPc = "idle"
    /\ helpOf = <<>>

\* started = time.time(); queue = [tuple()]; visited = set(); ...
DiscInit ==
    /\ max_depth \in 0..MaxDepth
    /\ total_timeout \in 0..MaxBudget
    /\ dClock = 0
    /\ queue = << <<>> >>
    /\ visited = {}
    /\ commands = {}
    /\ sections = <<>>
    /\ probes = {}
    /\ path = <<>>
    /\ surface = NoSurface
    /\ qPc = "loop"
    /\ helpOf = <<>>

\* while queue: (the queue is empty)
LoopExit ==
    /\ qPc = "loop"
    /\ queue = <<>>
    /\ qPc' = "return"
    /\ UNCHANGED <<max_depth, total_timeout, dClock, queue, visited, commands, sections,
                   probes, path, surface, helpOf>>

\* if time.time() - started > total_timeout: break
BudgetBreak ==
    /\ qPc = "loop"
    /\ queue # <<>>
    /\ dClock > total_timeout
    /\ qPc' = "return"
    /\ UNCHANGED <<max_depth, total_timeout, dClock, queue, visited, commands, sections,
                   probes, path, surface, helpOf>>

\* the dequeue leaves the path at the head of the queue
Dequeue_NoPop ==
    /\ qPc = "loop"
    /\ queue # <<>>
    /\ ~(dClock > total_timeout)
    /\ path' = Head(queue)
    /\ queue' = queue
    /\ IF Head(queue) \in visited
       THEN UNCHANGED <<visited, qPc>>
       ELSE visited' = visited \cup {Head(queue)} /\ qPc' = "probe"
    /\ UNCHANGED <<max_depth, total_timeout, dClock, commands, sections, probes,
                   surface, helpOf>>

\* path = queue.pop(0); if path in visited: continue; visited.add(path)
Dequeue ==
    /\ qPc = "loop"
    /\ queue # <<>>
    /\ ~(dClock > total_timeout)
    /\ path' = Head(queue)
    /\ queue' = Tail(queue)
    /\ IF Head(queue) \in visited
       THEN UNCHANGED <<visited, qPc>>
       ELSE visited' = visited \cup {Head(queue)} /\ qPc' = "probe"
    /\ UNCHANGED <<max_depth, total_timeout, dClock, commands, sections, probes,
                   surface, helpOf>>

\* The probes of one path run: the binary's page for the command is fixed
\* the first time it is asked for, and the probes take some time.
Probed(page, r) ==
    /\ qPc = "probe"
    /\ IF KeyOf(path) \in DOMAIN helpOf
       THEN page = helpOf[KeyOf(path)] /\ UNCHANGED helpOf
       ELSE helpOf' = [k \in DOMAIN helpOf \cup {KeyOf(path)} |->
                          IF k = KeyOf(path) THEN page ELSE helpOf[k]]
    /\ r = ProbeHelp(path, page)
    /\ \E d \in 0..1 : dClock' = IF dClock + d > BudgetCap THEN BudgetCap ELSE dClock + d
    /\ qPc' = "loop"
    /\ UNCHANGED <<max_depth, total_timeout, visited, path, surface>>

\* a path is recorded as a command whether or not its probes were accepted
ProbeRejected_Recorded ==
    \E page \in HelpPages : \E r \in {ProbeHelp(path, page)} :
        /\ Probed(page, r)
        /\ ~r.ok
        /\ commands' = IF path # <<>> THEN commands \cup {path} ELSE commands
        /\ UNCHANGED <<queue, sections, probes>>

\* if not ok: continue
ProbeRejected ==
    \E page \in HelpPages : \E r \in {ProbeHelp(path, page)} :
        /\ Probed(page, r)
        /\ ~r.ok
        /\ UNCHANGED <<queue, commands, sections, probes>>

\* probes.add(probe); sections.append(...); if path: commands.add(...)
Accepted(r) ==
    /\ r.ok
    /\ probes' = probes \cup {r.probe}
    /\ sections' = Append(sections, [path |-> path, probe |-> r.probe])
    /\ commands' = IF path # <<>> THEN commands \cup {path} ELSE commands

\* the children of a path at the maximum depth are enqueued all the same
ProbeAcceptedAtDepth_Enqueue ==
    \E page \in HelpPages : \E r \in {ProbeHelp(path, page)} :
        /\ Probed(page, r)
        /\ Accepted(r)
        /\ Len(path) >= max_depth
        /\ queue' = queue \o [i \in 1..Len(r.children) |-> Append(path, r.children[i])]

\* if len(path) >= max_depth: continue
ProbeAcceptedAtDepth ==
    \E page \in HelpPages : \E r \in {ProbeHelp(path, page)} :
        /\ Probed(page, r)
        /\ Accepted(r)
        /\ Len(path) >= max_depth
        /\ UNCHANGED queue

\* for sub in _parse_subcommands(output): child = (*path, sub);
\*     if child not in visited: queue.append(child)
EnqueueChildren(r) ==
    LET fresh == SelectSeq(r.children, LAMBDA sub : Append(path, sub) \notin visited)
    IN queue' = queue \o [i \in 1..Len(fresh) |-> Append(path, fresh[i])]

ProbeAcceptedExpand ==
    \E page \in HelpPages : \E r \in {ProbeHelp(path, page)} :
        /\ Probed(page, r)
        /\ Accepted(r)
        /\ Len(path) < max_depth
        /\ EnqueueChildren(r)

\* timed_out is read off the clock when the surface is built
CommandSurface_TimedOutByClock ==
    LET command_list == Sorted(PathOrder, commands)
    IN [command_paths |-> command_list,
        top_level_commands |-> TopLevelCommands(command_list),
        help_sections |-> sections,
        probe_kinds |-> Sorted(ProbeOrder, probes),
        max_depth |-> MaxLen(Range(command_list)),
        timed_out |-> dClock > total_timeout,
        returned |-> TRUE]

\* every probed path is reported, whether or not its probes were accepted
CommandSurface_Advertised ==
    LET command_list == Sorted(PathOrder, visited \ {<<>>})
    IN [command_paths |-> command_list,
        top_level_commands |->
            Sorted(TokenOrder, {command_list[i][1] : i \in 1..Len(command_list)}),
        help_sections |-> sections,
        probe_kinds |-> Sorted(ProbeOrder, probes),
        max_depth |-> MaxLen(Range(command_list)),
        timed_out |-> queue # <<>>,
        returned |-> TRUE]

\* command_list = sorted(commands); top_level = ...; return {...}
CommandSurface ==
    LET command_list == Sorted(PathOrder, commands)
    IN [command_paths |-> command_list,
        top_level_commands |-> TopLevelCommands(command_list),
        help_sections |-> sections,
        probe_kinds |-> Sorted(ProbeOrder, probes),
        max_depth |-> MaxLen(Range(command_list)),
        timed_out |-> queue # <<>>,
        returned |-> TRUE]

Return ==
    /\ qPc = "return"
    /\ surface' = CommandSurface
    /\ qPc' = "done"
    /\ UNCHANGED <<max_depth, total_timeout, dClock, queue, visited, commands, sections,
                   probes, path, helpOf>>

\* -------------------------------------------------------- _collect_contract
\* MaxBuilds contracts are built from one discovery; the wall clock runs up
\* to MaxNow half seconds.
MaxBuilds == 2
MaxNow == 2

\* time.strftime("%Y-%m-%dT%H:%M:%SZ", time.gmtime()): the time of day cut to
\* whole seconds (the clock counts half seconds)
NowIso(t) == t \div 2

\* null in a JSON file (None)
JsonNull == "null"

\* static-analysis.json and dynamic-analysis.json under the output
\* directory, or {} when the file is missing
StaticDatas == {<<>>, [sha256 |-> "h1", runtime_guess |-> <<"go">>]}
DynamicDatas ==
    {<<>>,
     [exit_code |-> 0, timed_out |-> FALSE,
      network_endpoints_observed |-> <<"ep1">>,
      file_changes |-> [home |-> [created |-> <<"a.txt">>], work |-> [created |-> <<>>]]]}

\* contract = {...}
Contract(static, surf, dyn, at) ==
    [schema_version |-> 1,
     generated_at |-> at,
     binary |-> "binary",
     binary_sha256 |-> Get(static, "sha256", JsonNull),
     runtime_guess |-> Get(static, "runtime_guess", <<"unknown">>),
     command_paths |-> surf.command_paths,
     top_level_commands |-> surf.top_level_commands,
     max_depth |-> surf.max_depth,
     help_probe_kinds |-> surf.probe_kinds,
     help_section_count |-> Len(surf.help_sections),
     dynamic_summary |->
         [exit_code |-> Get(dyn, "exit_code", JsonNull),
          timed_out |-> Get(dyn, "timed_out", JsonNull),
          network_endpoint_count |-> Len(Get(dyn, "network_endpoints_observed", <<>>)),
          sandbox_file_creates |-> Len(CreatedFiles(dyn))]]

\* json.dumps(data, indent=2, sort_keys=True): the members of the object in
\* the order of their keys
KeyOrder ==
    <<"binary", "binary_sha256", "command_paths", "dynamic_summary", "generated_at",
      "help_probe_kinds", "help_section_count", "max_depth", "runtime_guess",
      "schema_version", "top_level_commands">>
JsonDumps(data) ==
    LET keys == SelectSeq(KeyOrder, LAMBDA k : k \in DOMAIN data)
    IN [i \in 1..Len(keys) |-> [key |-> keys[i], value |-> data[keys[i]]]]

ConIdle ==
    /\ static_data = <<>>
    /\ dynamic_data = <<>>
    /\ now = 0
    /\ contractFiles = <<>>

\* The output directory holds the two analyses (a composed run) or neither
\* (collect-contract alone).
ConInit ==
    /\ static_data \in StaticDatas
    /\ dynamic_data \in DynamicDatas
    /\ static_data = <<>> <=> dynamic_data = <<>>
    /\ now = 0
    /\ contractFiles = <<>>

\* contract = {...}; _write_json(contract_dir / "contract.json", contract),
\* once the surface is captured
CollectContract ==
    /\ qPc = "done"
    /\ Len(contractFiles) < MaxBuilds
    /\ contractFiles' =
           Append(contractFiles,
                  JsonDumps(Contract(static_data, surface, dynamic_data, NowIso(now))))
    /\ UNCHANGED <<static_data, dynamic_data, now>>

\* Time passes between two builds (the clock counts from the first one).
ClockTick ==
    /\ qPc = "done"
    /\ contractFiles # <<>>
    /\ now < MaxNow
    /\ now' = now + 1
    /\ UNCHANGED <<static_data, dynamic_data, contractFiles>>

\* --------------------------------------------------------------------- main
\* The subcommands of the argument parser, and those that take --binary.
Commands ==
    {"collect-static", "collect-dynamic", "collect-contract", "compare-baseline",
     "enforce-policy", "run"}
BinaryCommands == {"collect-static", "collect-dynamic", "collect-contract", "run"}

\* The options of `run` that steer the pipeline: whether --baseline-dir and
\* --policy-file are given, and the two gate switches.
Options ==
    [baseline_dir : BOOLEAN, policy_file : BOOLEAN,
     fail_on_removed : BOOLEAN, fail_on_policy_fail : BOOLEAN]

\* What the stages meet when they run.  binary_ok: the binary exists and is
\* a file; static_raises: _collect_static raises (the file cannot be read);
\* dynamic: the child runs, or Popen raises (the file cannot be executed),
\* or communicate raises (undecodable output); discovery_raises: a probe
\* raises; contracts_ok: the contracts _compare_baseline loads exist;
\* policy_ok: the policy file and the contract _enforce_policy loads exist
\* and parse; removed: the baseline diff lists removed commands; verdict:
\* the verdict of the policy.
DynamicOutcomes == {"ok", "popen_raises", "communicate_raises"}
Verdicts == {"PASS", "WARN", "FAIL"}
Worlds ==
    [binary_ok : BOOLEAN, static_raises : BOOLEAN, dynamic : DynamicOutcomes,
     discovery_raises : BOOLEAN, contracts_ok : BOOLEAN, policy_ok : BOOLEAN,
     removed : BOOLEAN, verdict : Verdicts]

\* main has not returned
NoStatus == -1
\* the interpreter's exit status when main raises
UncaughtStatus == 1

MainIdle ==
    /\ args_cmd = "none"
    /\ opts = <<>>
    /\ world = <<>>
    /\ mPc = "idle"
    /\ artifacts = {}
    /\ launched = FALSE
    /\ baseline_failed = FALSE
    /\ policy_failed = FALSE
    /\ exitStatus = NoStatus

\* args = ap.parse_args()
MainInit ==
    /\ args_cmd \in Commands
    /\ opts \in Options
    /\ world \in Worlds
    /\ mPc = "check"
    /\ artifacts = {}
    /\ launched = FALSE
    /\ baseline_failed = FALSE
    /\ policy_failed = FALSE
    /\ exitStatus = NoStatus

\* return <status>, or an exception that nothing catches
Exit(status) == mPc' = "exit" /\ exitStatus' = status
Raise == Exit(UncaughtStatus)

\* the binary is not looked at before the stages run
CheckBinary_NoCheck ==
    /\ mPc = "check"
    /\ mPc' = CASE args_cmd \in {"collect-static", "run"} -> "static"
                 [] args_cmd = "collect-dynamic" -> "dynamic"
                 [] args_cmd = "collect-contract" -> "contract"
                 [] args_cmd = "compare-baseline" -> "compare"
                 [] args_cmd = "enforce-policy" -> "policy"
    /\ UNCHANGED <<args_cmd, opts, world, artifacts, launched, baseline_failed,
                   policy_failed, exitStatus>>

\* if args.cmd in {...}: if not binary.exists() or not binary.is_file(): return 2
CheckBinary ==
    /\ mPc = "check"
    /\ IF args_cmd \in BinaryCommands /\ ~world.binary_ok
       THEN Exit(2)
       ELSE /\ mPc' = CASE args_cmd \in {"collect-static", "run"} -> "static"
                        [] args_cmd = "collect-dynamic" -> "dynamic"
                        [] args_cmd = "collect-contract" -> "contract"
                        [] args_cmd = "compare-baseline" -> "compare"
                        [] args_cmd = "enforce-policy" -> "policy"
            /\ UNCHANGED exitStatus
    /\ UNCHANGED <<args_cmd, opts, world, artifacts, launched, baseline_failed, policy_failed>>

\* _collect_static(binary, out_dir)
StaticStage ==
    /\ mPc = "static"
    /\ IF world.static_raises
       THEN Raise /\ UNCHANGED artifacts
       ELSE /\ artifacts' = artifacts \cup {"static"}
            /\ IF args_cmd = "collect-static"
               THEN Exit(0)
               ELSE mPc' = "dynamic" /\ UNCHANGED exitStatus
    /\ UNCHANGED <<args_cmd, opts, world, launched, baseline_failed, policy_failed>>

\* _collect_dynamic(binary, out_dir, _parse_run_args(args.run_args), ...)
DynamicStage ==
    /\ mPc = "dynamic"
    /\ launched' = (world.dynamic # "popen_raises")
    /\ IF world.dynamic # "ok"
       THEN Raise /\ UNCHANGED artifacts
       ELSE /\ artifacts' = artifacts \cup {"dynamic"}
            /\ IF args_cmd = "collect-dynamic"
               THEN Exit(0)
               ELSE mPc' = "contract" /\ UNCHANGED exitStatus
    /\ UNCHANGED <<args_cmd, opts, world, baseline_failed, policy_failed>>

\* _collect_contract(binary, out_dir, ...)
ContractStage ==
    /\ mPc = "contract"
    /\ IF world.discovery_raises
       THEN Raise /\ UNCHANGED artifacts
       ELSE /\ artifacts' = artifacts \cup {"contract"}
            /\ IF args_cmd = "collect-contract"
               THEN Exit(0)
               ELSE mPc' = "baseline" /\ UNCHANGED exitStatus
    /\ UNCHANGED <<args_cmd, opts, world, launched, baseline_failed, policy_failed>>

\* if args.cmd == "compare-baseline": _compare_baseline(...); return 0
CompareCommand ==
    /\ mPc = "compare"
    /\ IF ~world.contracts_ok
       THEN Raise /\ UNCHANGED artifacts
       ELSE artifacts' = artifacts \cup {"compare"} /\ Exit(0)
    /\ UNCHANGED <<args_cmd, opts, world, launched, baseline_failed, policy_failed>>

\* if args.cmd == "enforce-policy": return 3 if verdict == "FAIL" else 0
PolicyCommand ==
    /\ mPc = "policy"
    /\ IF ~world.policy_ok
       THEN Raise /\ UNCHANGED artifacts
       ELSE /\ artifacts' = artifacts \cup {"policy"}
            /\ Exit(IF world.verdict = "FAIL" THEN 3 ELSE 0)
    /\ UNCHANGED <<args_cmd, opts, world, launched, baseline_failed, policy_failed>>

\* run: if args.baseline_dir: diff = _compare_baseline(...);
\*          if args.fail_on_removed and diff.get("removed"): baseline_failed = True
BaselineGate ==
    /\ mPc = "baseline"
    /\ IF ~opts.baseline_dir
       THEN mPc' = "gate" /\ UNCHANGED <<artifacts, baseline_failed, exitStatus>>
       ELSE IF ~world.contracts_ok
       THEN Raise /\ UNCHANGED <<artifacts, baseline_failed>>
       ELSE /\ artifacts' = artifacts \cup {"compare"}
            /\ baseline_failed' = (opts.fail_on_removed /\ world.removed)
            /\ mPc' = "gate"
            /\ UNCHANGED exitStatus
    /\ UNCHANGED <<args_cmd, opts, world, launched, policy_failed>>

\* run: if args.policy_file: verdict, _ = _enforce_policy(...);
\*          if args.fail_on_policy_fail and verdict == "FAIL": policy_failed = True
PolicyGate ==
    /\ mPc = "gate"
    /\ IF ~opts.policy_file
       THEN mPc' = "summary" /\ UNCHANGED <<artifacts, policy_failed, exitStatus>>
       ELSE IF ~world.policy_ok
       THEN Raise /\ UNCHANGED <<artifacts, policy_failed>>
       ELSE /\ artifacts' = artifacts \cup {"policy"}
            /\ policy_failed' = (opts.fail_on_policy_fail /\ world.verdict = "FAIL")
            /\ mPc' = "summary"
            /\ UNCHANGED exitStatus
    /\ UNCHANGED <<args_cmd, opts, world, launched, baseline_failed>>

\* _suite_summary(out_dir); return 4 if baseline_failed or policy_failed else 0
Summary ==
    /\ mPc = "summary"
    /\ artifacts' = artifacts \cup {"summary"}
    /\ Exit(IF baseline_failed \/ policy_failed THEN 4 ELSE 0)
    /\ UNCHANGED <<args_cmd, opts, world, launched, baseline_failed, policy_failed>>

\* -------------------------------------------------------------- _probe_help
\* The command paths _probe_help is called with.
ProbePaths == {<<>>, <<"foo">>, <<"foo", "bar">>}

\* probes: the (pname, args) pairs of a path, in list order
Probes(p) ==
    IF p # <<>>
    THEN <<[pname |-> "--help", args |-> p \o <<"--help">>],
           [pname |-> "-h", args |-> p \o <<"-h">>],
           [pname |-> "help-prefix", args |-> <<"help">> \o p],
           [pname |-> "help-suffix", args |-> p \o <<"help">>]>>
    ELSE <<[pname |-> "--help", args |-> <<"--help">>],
           [pname |-> "-h", args |-> <<"-h">>],
           [pname |-> "help", args |-> <<"help">>]>>

\* A text is kept as the set of the words of the universe it contains; no
\* word of the universe holds another one as a substring.
Words ==
    {"Usage", "usage", "USAGE", "Commands", "commands", "Subcommands", "Flags",
     "flags", "Options", "OPTIONS", "help", "error"}
Streams == {{}} \cup {{w} : w \in Words}

\* txt = (r.stdout or "") + ("\n" + r.stderr if r.stderr else "")
Combined(stdout, stderr) == stdout \cup stderr

\* re.search(r"Usage|USAGE|Commands|Subcommands|Flags|Options|help", txt)
HelpSignature == {"Usage", "USAGE", "Commands", "Subcommands", "Flags", "Options", "help"}
LooksLikeHelp(txt) == txt \cap HelpSignature # {}

NoReturn == [ok |-> FALSE, probe |-> "", returned |-> FALSE]

ProbeIdle ==
    /\ probe_path = <<>>
    /\ probe_idx = 0
    /\ probe_txt = {}
    /\ probe_runs = <<>>
    /\ probe_ret = NoReturn
    /\ probePc = "idle"

\* _probe_help(binary, path, timeout_s): probes = [...]
ProbeInit ==
    /\ probe_path \in ProbePaths
    /\ probe_idx = 1
    /\ probe_txt = {}
    /\ probe_runs = <<>>
    /\ probe_ret = NoReturn
    /\ probePc = "for"

\* for pname, args in probes: r = _run([str(binary), *args], ...); txt = ...;
\*     if re.search(...): return True, pname, txt
RunProbe ==
    /\ probePc = "for"
    /\ probe_idx <= Len(Probes(probe_path))
    /\ \E stdout \in Streams, stderr \in Streams :
          LET txt == Combined(stdout, stderr)
          IN /\ probe_txt' = txt
             /\ IF LooksLikeHelp(txt)
                THEN /\ probe_ret' = [ok |-> TRUE,
                                      probe |-> Probes(probe_path)[probe_idx].pname,
                                      returned |-> TRUE]
                     /\ probePc' = "done"
                     /\ UNCHANGED probe_idx
                ELSE /\ probe_idx' = probe_idx + 1
                     /\ UNCHANGED <<probe_ret, probePc>>
    /\ probe_runs' = Append(probe_runs, Probes(probe_path)[probe_idx].args)
    /\ UNCHANGED probe_path

\* return False, "", "" (the list is exhausted)
ProbeGiveUp ==
    /\ probePc = "for"
    /\ probe_idx > Len(Probes(probe_path))
    /\ probe_ret' = [ok |-> FALSE, probe |-> "", returned |-> TRUE]
    /\ probePc' = "done"
    /\ UNCHANGED <<probe_path, probe_idx, probe_txt, probe_runs>>

\* ----------------------------------------------------- _normalize_cmd_token
\* A string is a sequence of pieces, at most MaxPieces long: a piece is a
\* run of letters ("foo", "help", "Help") or one character.
MaxPieces == 3

Letters == {"foo", "help", "Help"}
Whitespace == {" ", "\n"}
Quotes == {"'"}
Brackets == {"[", "]"}
Pieces == Letters \cup Whitespace \cup Quotes \cup Brackets \cup {"-", ".", "!"}
Strings == UNION {[1..k -> Pieces] : k \in 0..MaxPieces}

\* str.strip(chars): the leading and trailing characters of the set go
RECURSIVE LStrip(_, _)
LStrip(s, chars) ==
    IF s # <<>> /\ Head(s) \in chars THEN LStrip(Tail(s), chars) ELSE s
RECURSIVE RStrip(_, _)
RStrip(s, chars) ==
    IF s # <<>> /\ s[Len(s)] \in chars THEN RStrip(SubSeq(s, 1, Len(s) - 1), chars) ELSE s
Strip(s, chars) == RStrip(LStrip(s, chars), chars)

\* str.lower
LowerPiece(c) == IF c = "Help" THEN "help" ELSE c
LowerStr(s) == [i \in 1..Len(s) |-> LowerPiece(s[i])]

\* {"help", "commands", "command", "flags", "options", "usage"}, as far as
\* the pieces spell them
Stopwords == {<<"help">>}

\* re.match(r"^[a-zA-Z0-9][a-zA-Z0-9._:-]*$", token): $ matches at the end of
\* the string and also before a newline that ends the string
MatchesTokenPattern(s) ==
    LET body == IF s # <<>> /\ s[Len(s)] = "\n" THEN SubSeq(s, 1, Len(s) - 1) ELSE s
    IN /\ body # <<>>
       /\ body[1] \in Letters
       /\ \A i \in 1..Len(body) : body[i] \in Letters \cup {"-", "."}

None == <<"None">>

\* _normalize_cmd_token(token)
NormalizeCmdToken(t) ==
    LET t1 == Strip(Strip(t, Whitespace), Quotes)
        t2 == Strip(t1, Brackets)
    IN IF t2 = <<>> THEN None
       ELSE IF t2[1] = "-" THEN None
       ELSE IF LowerStr(t2) \in Stopwords THEN None
       ELSE IF ~MatchesTokenPattern(t2) THEN None
       ELSE t2

\* ln.strip().split()[0] if ln.strip().split() else "": the first run of
\* pieces of the line that holds no whitespace
RECURSIVE UpToWhitespace(_)
UpToWhitespace(s) ==
    IF s = <<>> \/ Head(s) \in Whitespace THEN <<>>
    ELSE <<Head(s)>> \o UpToWhitespace(Tail(s))
FirstField(line) == UpToWhitespace(LStrip(line, Whitespace))

\* A line of help_text.splitlines(): it holds no line break.
Lines == {s \in Strings : \A i \in 1..Len(s) : s[i] # "\n"}

NormIdle ==
    /\ ln = <<>>
    /\ token = <<>>
    /\ norm = None
    /\ renorm = None
    /\ nPc = "idle"

\* _normalize_cmd_token is called with any string; _parse_subcommands calls
\* it with the first field of a line of the commands section.
NormInit ==
    /\ \/ ln = <<>> /\ token \in Strings /\ nPc = "call"
       \/ ln \in Lines /\ token = <<>> /\ nPc = "line"
    /\ norm = None
    /\ renorm = None

\* tok = ln.strip().split()[0] if ln.strip().split() else ""
SplitLine ==
    /\ nPc = "line"
    /\ token' = FirstField(ln)
    /\ nPc' = "parse"
    /\ UNCHANGED <<ln, norm, renorm>>

\* norm = _normalize_cmd_token(tok)
NormalizeCall ==
    /\ nPc \in {"call", "parse"}
    /\ norm' = NormalizeCmdToken(token)
    /\ nPc' = IF nPc = "call" THEN "called" ELSE "parsed"
    /\ UNCHANGED <<ln, token, renorm>>

\* the token returned is normalized once more
NormalizeAgain ==
    /\ nPc \in {"called", "parsed"}
    /\ norm # None
    /\ renorm' = NormalizeCmdToken(norm)
    /\ nPc' = IF nPc = "called" THEN "recalled" ELSE "reparsed"
    /\ UNCHANGED <<ln, token, norm>>

\* --------------------------------------------------- _collect_process_table
\* The table read of a poll tick, step by step.  shutil_which finds ps or
\* not; _run returns its output, or what ps had printed when it timed out
\* (the partial output of TimeoutExpired), or subprocess.run raises an error
\* that _run does not catch (output that is not valid UTF-8).  The lines
\* that do not parse are skipped, so any table can result.
ReadKinds == {"ps_missing", "ran", "timeout", "undecodable"}
NoRead == [kind |-> "none", rows |-> 0, table |-> <<>>]

ReadIdle == read = NoRead

\* if not shutil_which("ps"): return {}
\* r = _run(["ps", ...], timeout=5); for ln in r.stdout.splitlines(): ...
ReadTable ==
    /\ supPc = "observe"
    /\ \E kind \in ReadKinds \ {"undecodable"} :
          \E t \in IF kind = "ps_missing" THEN {<<>>} ELSE DynTables :
              read' = [kind |-> kind, rows |-> Len(t), table |-> t]
    /\ supPc' = "table"
    /\ UNCHANGED <<timeout_s, clock, elapsed, timed_out, returncode, seen_pids, pids,
                   seen_cmds, seen_eps, ticks, signals, dynRun, childVars>>

\* subprocess.run(..., text=True) raises UnicodeDecodeError: _run catches
\* TimeoutExpired and FileNotFoundError only, the loop ProcessLookupError only
ReadTableRaises ==
    /\ supPc = "observe"
    /\ read' = [kind |-> "undecodable", rows |-> 0, table |-> <<>>]
    /\ supPc' = "raised"
    /\ UNCHANGED <<timeout_s, clock, elapsed, timed_out, returncode, seen_pids, pids,
                   seen_cmds, seen_eps, ticks, signals, dynRun, childVars>>

\* pids = _descendants(proc.pid, table) if proc.pid in table else {proc.pid}
\* seen_pids.update(pids); the commands and the endpoints of pids are added.
\* The table is not read again: the next tick builds its own.
ObserveTable ==
    /\ supPc = "table"
    /\ pids' = IF ChildPid \in TablePids(read.table)
               THEN DescendantsOf(ChildPid, read.table)
               ELSE {ChildPid}
    /\ seen_pids' = Accumulate(seen_pids, pids')
    /\ seen_cmds' = Accumulate(seen_cmds, TickCommands(read.table, pids'))
    /\ seen_eps' = Accumulate(seen_eps, TickEndpoints(pids'))
    /\ read' = [read EXCEPT !.table = <<>>]
    /\ supPc' = "check"
    /\ UNCHANGED <<timeout_s, clock, elapsed, timed_out, returncode, ticks, signals,
                   dynRun, childVars>>

\* ------------------------------------------------ _collect_dynamic: sandbox
\* Successive runs of _collect_dynamic, at most MaxRuns of them, each with
\* an output directory and a caller environment of its own; the child of a
\* run changes at most MaxWrites files under its home and work directories.
MaxRuns == 2
MaxWrites == 1

OutDirs == {"out1", "out2"}
Trees == {"home", "work"}

DEFAULT_PATH == "/usr/bin:/bin:/usr/sbin:/sbin"

\* os.environ of the caller
CallerEnvs ==
    {<<>>,
     [PATH |-> "/opt/a/bin"],
     [PATH |-> "/opt/b/bin", HOME |-> "/home/u", SECRET |-> "s3cr3t"]}

\* sandbox = out_dir / "dynamic" / "sandbox"; home, work, tmp under it
SandboxDir(o, name) == <<o, "dynamic", "sandbox", name>>

\* env = {"PATH": os.environ.get("PATH", DEFAULT_PATH), "HOME": str(home), ...}
ChildEnv(environ, o) ==
    [PATH |-> Get(environ, "PATH", DEFAULT_PATH),
     HOME |-> SandboxDir(o, "home"),
     TMPDIR |-> SandboxDir(o, "tmp"),
     LANG |-> "C.UTF-8"]

\* _snapshot_tree(root): the files under root with their size and mtime
SnapshotTree(d, o, name) == d[o][name]

NoChanges == [home |-> EmptyDiff, work |-> EmptyDiff]

SbIdle ==
    /\ disk = <<>>
    /\ os_environ = <<>>
    /\ out_dir = ""
    /\ before_home = <<>>
    /\ before_work = <<>>
    /\ env = <<>>
    /\ file_changes = NoChanges
    /\ launches = <<>>
    /\ writes = 0
    /\ sbPc = "idle"

\* No output directory exists yet.
SbInit ==
    /\ disk = [o \in OutDirs |-> [t \in Trees |-> <<>>]]
    /\ os_environ = <<>>
    /\ out_dir = ""
    /\ before_home = <<>>
    /\ before_work = <<>>
    /\ env = <<>>
    /\ file_changes = NoChanges
    /\ launches = <<>>
    /\ writes = 0
    /\ sbPc = "start"

\* for d in [dynamic_dir, home, work, tmp]: _ensure_dir(d)   (mkdir with
\* exist_ok: what the directories hold stays)
\* before_home = _snapshot_tree(home); before_work = _snapshot_tree(work)
\* env = {...}; proc = subprocess.Popen(argv, cwd=str(work), env=env, ...)
Launch ==
    /\ sbPc \in {"start", "done"}
    /\ Len(launches) < MaxRuns
    /\ \E o \in OutDirs, environ \in CallerEnvs :
          /\ out_dir' = o
          /\ os_environ' = environ
          /\ before_home' = SnapshotTree(disk, o, "home")
          /\ before_work' = SnapshotTree(disk, o, "work")
          /\ env' = ChildEnv(environ, o)
          /\ launches' = Append(launches, [out_dir |-> o, env |-> ChildEnv(environ, o)])
    /\ writes' = 0
    /\ sbPc' = "running"
    /\ UNCHANGED <<disk, file_changes>>

\* The child creates or rewrites a file under its home or work directory.
ChildWrites ==
    /\ sbPc = "running"
    /\ writes < MaxWrites
    /\ \E t \in Trees, f \in Files, st \in Stats :
          disk' = [disk EXCEPT ![out_dir][t] =
                      [k \in DOMAIN @ \cup {f} |-> IF k = f THEN st ELSE @[k]]]
    /\ writes' = writes + 1
    /\ UNCHANGED <<os_environ, out_dir, before_home, before_work, env, file_changes,
                   launches, sbPc>>

\* The child removes a file of its home or work directory.
ChildRemoves ==
    /\ sbPc = "running"
    /\ writes < MaxWrites
    /\ \E t \in Trees : \E f \in DOMAIN disk[out_dir][t] :
          disk' = [disk EXCEPT ![out_dir][t] = [k \in DOMAIN @ \ {f} |-> @[k]]]
    /\ writes' = writes + 1
    /\ UNCHANGED <<os_environ, out_dir, before_home, before_work, env, file_changes,
                   launches, sbPc>>

\* after_home = _snapshot_tree(home); after_work = _snapshot_tree(work)
\* "file_changes": {"home": _diff_snapshots(before_home, after_home), "work": ...}
RecordChanges ==
    /\ sbPc = "running"
    /\ file_changes' =
           [home |-> DiffSnapshots(before_home, SnapshotTree(disk, out_dir, "home")),
            work |-> DiffSnapshots(before_work, SnapshotTree(disk, out_dir, "work"))]
    /\ sbPc' = "done"
    /\ UNCHANGED <<disk, os_environ, out_dir, before_home, before_work, env, launches,
                   writes>>

\* ------------------------------------------------- main: successive runs
\* At most MaxInvocations `run` invocations, one after the other, each on an
\* output directory, with or without a baseline and a policy.  Of the
\* files of an output directory compare/baseline-diff.json is followed.
MaxInvocations == 2

\* A file of the directory: absent, or a diff with its removed list
NoFile == [exists |-> FALSE, removed |-> <<>>]
DiffFile(removed) == [exists |-> TRUE, removed |-> removed]

\* What a baseline gives when compared to the contract of the run: the
\* removed list of the diff.
RemovedLists == {<<>>, <<"bar">>}

\* --baseline-dir (given or not, and the removed list the baseline yields)
\* and --policy-file (given or not, and its block_if_removed_commands)
RunArgs ==
    {a \in [baseline_dir : BOOLEAN, removed : RemovedLists,
            policy_file : BOOLEAN, block_if_removed_commands : BOOLEAN] :
        /\ ~a.baseline_dir => a.removed = <<>>
        /\ ~a.policy_file => ~a.block_if_removed_commands}
NoArgs ==
    [baseline_dir |-> FALSE, removed |-> <<>>,
     policy_file |-> FALSE, block_if_removed_commands |-> FALSE]

RunsIdle ==
    /\ diff_files = [o \in OutDirs |-> NoFile]
    /\ run_dir = ""
    /\ args = NoArgs
    /\ removed_findings = <<>>
    /\ rPc = "idle"

\* No output directory holds a baseline diff.
RunsInit ==
    /\ diff_files = [o \in OutDirs |-> NoFile]
    /\ run_dir = ""
    /\ args = NoArgs
    /\ removed_findings = <<>>
    /\ rPc = "start"

\* main is entered for `run`; the analyses and the contract are rebuilt
Invoke ==
    /\ rPc \in {"start", "end"}
    /\ Len(removed_findings) < MaxInvocations
    /\ run_dir' \in OutDirs
    /\ args' \in RunArgs
    /\ rPc' = "baseline"
    /\ UNCHANGED <<diff_files, removed_findings>>

\* if args.baseline_dir: diff = _compare_baseline(out_dir, ..., out_dir),
\* which writes compare/baseline-diff.json
BaselineStep ==
    /\ rPc = "baseline"
    /\ diff_files' = IF args.baseline_dir
                     THEN [diff_files EXCEPT ![run_dir] = DiffFile(args.removed)]
                     ELSE diff_files
    /\ rPc' = "policy"
    /\ UNCHANGED <<run_dir, args, removed_findings>>

\* compare = json.loads(compare_path.read_text()) if compare_path.exists() else {}
\* if bool(policy.get("block_if_removed_commands", False)) and compare.get("removed")
RemovedGate(a, files, o) ==
    LET compare_ == IF files[o].exists THEN [removed |-> files[o].removed] ELSE <<>>
    IN a.block_if_removed_commands /\ Get(compare_, "removed", <<>>) # <<>>

\* if args.policy_file: verdict, _ = _enforce_policy(out_dir, ..., out_dir)
PolicyStep ==
    /\ rPc = "policy"
    /\ removed_findings' =
           Append(removed_findings,
                  [out_dir |-> run_dir,
                   baseline |-> args.baseline_dir,
                   finding |-> args.policy_file
                                  /\ RemovedGate(args, diff_files, run_dir)])
    /\ rPc' = "end"
    /\ UNCHANGED <<diff_files, run_dir, args>>

\* ---------------------------------------------------------- specifications
\* Each specification runs one component; the others stay idle.

notDescVars ==
    <<snapVars, baseVars, polVars, dynVars, discVars, conVars, mainVars, probeVars,
      normVars, readVars, sbVars, runsVars>>
notSnapVars ==
    <<descVars, baseVars, polVars, dynVars, discVars, conVars, mainVars, probeVars,
      normVars, readVars, sbVars, runsVars>>
notBaseVars ==
    <<descVars, snapVars, polVars, dynVars, discVars, conVars, mainVars, probeVars,
      normVars, readVars, sbVars, runsVars>>
notPolVars ==
    <<descVars, snapVars, baseVars, dynVars, discVars, conVars, mainVars, probeVars,
      normVars, readVars, sbVars, runsVars>>
notDynVars ==
    <<descVars, snapVars, baseVars, polVars, discVars, conVars, mainVars, probeVars,
      normVars, readVars, sbVars, runsVars>>
notConVars ==
    <<descVars, snapVars, baseVars, polVars, dynVars, discVars, mainVars, probeVars,
      normVars, readVars, sbVars, runsVars>>
notMainVars ==
    <<descVars, snapVars, baseVars, polVars, dynVars, discVars, conVars, probeVars,
      normVars, readVars, sbVars, runsVars>>
notDiscVars ==
    <<descVars, snapVars, baseVars, polVars, dynVars, conVars, mainVars, probeVars,
      normVars, readVars, sbVars, runsVars>>

InitDescendants ==
    DescInit /\ SnapIdle /\ BaseIdle /\ PolIdle /\ DynIdle /\ DiscIdle /\ ConIdle
        /\ MainIdle /\ ProbeIdle /\ NormIdle /\ ReadIdle /\ SbIdle /\ RunsIdle
NextDescendants ==
    \/ DescendantsStart /\ UNCHANGED notDescVars
    \/ DescendantsWhile /\ UNCHANGED notDescVars
    \/ DescendantsSkip /\ UNCHANGED notDescVars
    \/ DescendantsAdd /\ UNCHANGED notDescVars
    \/ DescendantsPass /\ UNCHANGED notDescVars
    \/ DescendantsForEnd /\ UNCHANGED notDescVars
\* _descendants is sequential code: it keeps taking its next step.
SpecDescendants ==
    InitDescendants /\ [][NextDescendants]_vars /\ WF_vars(NextDescendants)

InitSnapshots ==
    SnapInit /\ DescIdle /\ BaseIdle /\ PolIdle /\ DynIdle /\ DiscIdle /\ ConIdle
        /\ MainIdle /\ ProbeIdle /\ NormIdle /\ ReadIdle /\ SbIdle /\ RunsIdle
NextSnapshots == DiffSnapshotsCall /\ UNCHANGED notSnapVars
SpecSnapshots == InitSnapshots /\ [][NextSnapshots]_vars

InitBaseline ==
    BaseInit /\ DescIdle /\ SnapIdle /\ PolIdle /\ DynIdle /\ DiscIdle /\ ConIdle
        /\ MainIdle /\ ProbeIdle /\ NormIdle /\ ReadIdle /\ SbIdle /\ RunsIdle
NextBaseline == CompareBaselineCall /\ UNCHANGED notBaseVars
SpecBaseline == InitBaseline /\ [][NextBaseline]_vars

InitPolicy ==
    PolInit /\ DescIdle /\ SnapIdle /\ BaseIdle /\ DynIdle /\ DiscIdle /\ ConIdle
        /\ MainIdle /\ ProbeIdle /\ NormIdle /\ ReadIdle /\ SbIdle /\ RunsIdle
NextPolicy ==
    \/ RuleRequired /\ UNCHANGED notPolVars
    \/ RuleDenyCommand /\ UNCHANGED notPolVars
    \/ RuleMaxCreated /\ UNCHANGED notPolVars
    \/ RuleForbidPath /\ UNCHANGED notPolVars
    \/ RuleAllowNet /\ UNCHANGED notPolVars
    \/ RuleDenyNet /\ UNCHANGED notPolVars
    \/ RuleRemoved /\ UNCHANGED notPolVars
    \/ RuleMinCount /\ UNCHANGED notPolVars
    \/ WriteVerdict /\ UNCHANGED notPolVars
\* _enforce_policy is sequential code: it keeps taking its next step.
SpecPolicy == InitPolicy /\ [][NextPolicy]_vars /\ WF_vars(NextPolicy)

InitDynamic ==
    DynInit /\ DescIdle /\ SnapIdle /\ BaseIdle /\ PolIdle /\ DiscIdle /\ ConIdle
        /\ MainIdle /\ ProbeIdle /\ NormIdle /\ ReadIdle /\ SbIdle /\ RunsIdle
SupervisorNext ==
    \/ Popen /\ UNCHANGED notDynVars
    \/ Poll /\ UNCHANGED notDynVars
    \/ ReadElapsed /\ UNCHANGED notDynVars
    \/ Observe /\ UNCHANGED notDynVars
    \/ CheckTimeout /\ UNCHANGED notDynVars
    \/ KillGroup /\ UNCHANGED notDynVars
    \/ KillGroupNoProcess /\ UNCHANGED notDynVars
    \/ Sleep /\ UNCHANGED notDynVars
    \/ CommunicateDone /\ UNCHANGED notDynVars
    \/ CommunicateTimeout /\ UNCHANGED notDynVars
    \/ RecordRun /\ UNCHANGED notDynVars
NextDynamic ==
    \/ SupervisorNext
    \/ ChildExit /\ UNCHANGED notDynVars
    \/ TimePasses /\ UNCHANGED notDynVars
\* The supervisor is sequential code and each of its calls returns (every
\* external call carries a timeout): it keeps taking its next step.  Nothing
\* obliges the child to exit or the clock to move between two steps.
SpecDynamic == InitDynamic /\ [][NextDynamic]_vars /\ WF_vars(SupervisorNext)

InitDiscovery ==
    DiscInit /\ DescIdle /\ SnapIdle /\ BaseIdle /\ PolIdle /\ DynIdle /\ ConIdle
        /\ MainIdle /\ ProbeIdle /\ NormIdle /\ ReadIdle /\ SbIdle /\ RunsIdle
NextDiscovery ==
    \/ LoopExit /\ UNCHANGED notDiscVars
    \/ BudgetBreak /\ UNCHANGED notDiscVars
    \/ Dequeue /\ UNCHANGED notDiscVars
    \/ ProbeRejected /\ UNCHANGED notDiscVars
    \/ ProbeAcceptedAtDepth /\ UNCHANGED notDiscVars
    \/ ProbeAcceptedExpand /\ UNCHANGED notDiscVars
    \/ Return /\ UNCHANGED notDiscVars
\* _capture_command_surface is sequential code and every probe returns
\* (_run bounds it by the per-command timeout): it keeps taking its next step.
SpecDiscovery == InitDiscovery /\ [][NextDiscovery]_vars /\ WF_vars(NextDiscovery)

InitContract ==
    DiscInit /\ ConInit /\ DescIdle /\ SnapIdle /\ BaseIdle /\ PolIdle /\ DynIdle
        /\ MainIdle /\ ProbeIdle /\ NormIdle /\ ReadIdle /\ SbIdle /\ RunsIdle
NextContract ==
    \/ NextDiscovery
    \/ CollectContract /\ UNCHANGED notConVars
    \/ ClockTick /\ UNCHANGED notConVars
\* _collect_contract runs the discovery and then builds the contract.
SpecContract == InitContract /\ [][NextContract]_vars /\ WF_vars(NextDiscovery)

InitMain ==
    MainInit /\ DescIdle /\ SnapIdle /\ BaseIdle /\ PolIdle /\ DynIdle /\ DiscIdle
        /\ ConIdle /\ ProbeIdle /\ NormIdle /\ ReadIdle /\ SbIdle /\ RunsIdle
NextMain ==
    \/ CheckBinary /\ UNCHANGED notMainVars
    \/ StaticStage /\ UNCHANGED notMainVars
    \/ DynamicStage /\ UNCHANGED notMainVars
    \/ ContractStage /\ UNCHANGED notMainVars
    \/ CompareCommand /\ UNCHANGED notMainVars
    \/ PolicyCommand /\ UNCHANGED notMainVars
    \/ BaselineGate /\ UNCHANGED notMainVars
    \/ PolicyGate /\ UNCHANGED notMainVars
    \/ Summary /\ UNCHANGED notMainVars
\* main is sequential code and every stage returns or raises.
SpecMain == InitMain /\ [][NextMain]_vars /\ WF_vars(NextMain)

notProbeVars ==
    <<descVars, snapVars, baseVars, polVars, dynVars, discVars, conVars, mainVars,
      normVars, readVars, sbVars, runsVars>>
InitProbe ==
    ProbeInit /\ DescIdle /\ SnapIdle /\ BaseIdle /\ PolIdle /\ DynIdle /\ DiscIdle
        /\ ConIdle /\ MainIdle /\ NormIdle /\ ReadIdle /\ SbIdle /\ RunsIdle
NextProbe ==
    \/ RunProbe /\ UNCHANGED notProbeVars
    \/ ProbeGiveUp /\ UNCHANGED notProbeVars
\* _probe_help is sequential code and every probe returns.
SpecProbe == InitProbe /\ [][NextProbe]_vars /\ WF_vars(NextProbe)

notNormVars ==
    <<descVars, snapVars, baseVars, polVars, dynVars, discVars, conVars, mainVars,
      probeVars, readVars, sbVars, runsVars>>
InitNormalize ==
    NormInit /\ DescIdle /\ SnapIdle /\ BaseIdle /\ PolIdle /\ DynIdle /\ DiscIdle
        /\ ConIdle /\ MainIdle /\ ProbeIdle /\ ReadIdle /\ SbIdle /\ RunsIdle
NextNormalize ==
    \/ SplitLine /\ UNCHANGED notNormVars
    \/ NormalizeCall /\ UNCHANGED notNormVars
    \/ NormalizeAgain /\ UNCHANGED notNormVars
SpecNormalize == InitNormalize /\ [][NextNormalize]_vars

notPollVars ==
    <<descVars, snapVars, baseVars, polVars, discVars, conVars, mainVars, probeVars,
      normVars, sbVars, runsVars>>
InitPolling ==
    DynInit /\ ReadIdle /\ DescIdle /\ SnapIdle /\ BaseIdle /\ PolIdle /\ DiscIdle
        /\ ConIdle /\ MainIdle /\ ProbeIdle /\ NormIdle /\ SbIdle /\ RunsIdle
PollingNext ==
    \/ Popen /\ UNCHANGED notDynVars
    \/ Poll /\ UNCHANGED notDynVars
    \/ ReadElapsed /\ UNCHANGED notDynVars
    \/ ReadTable /\ UNCHANGED notPollVars
    \/ ReadTableRaises /\ UNCHANGED notPollVars
    \/ ObserveTable /\ UNCHANGED notPollVars
    \/ CheckTimeout /\ UNCHANGED notDynVars
    \/ KillGroup /\ UNCHANGED notDynVars
    \/ KillGroupNoProcess /\ UNCHANGED notDynVars
    \/ Sleep /\ UNCHANGED notDynVars
    \/ CommunicateDone /\ UNCHANGED notDynVars
    \/ CommunicateTimeout /\ UNCHANGED notDynVars
    \/ RecordRun /\ UNCHANGED notDynVars
NextPolling ==
    \/ PollingNext
    \/ ChildExit /\ UNCHANGED notDynVars
    \/ TimePasses /\ UNCHANGED notDynVars
\* The supervisor with the table read of each tick spelled out.
SpecPolling == InitPolling /\ [][NextPolling]_vars /\ WF_vars(PollingNext)

notSbVars ==
    <<descVars, snapVars, baseVars, polVars, dynVars, discVars, conVars, mainVars,
      probeVars, normVars, readVars, runsVars>>
InitSandbox ==
    SbInit /\ DescIdle /\ SnapIdle /\ BaseIdle /\ PolIdle /\ DynIdle /\ DiscIdle
        /\ ConIdle /\ MainIdle /\ ProbeIdle /\ NormIdle /\ ReadIdle /\ RunsIdle
NextSandbox ==
    \/ Launch /\ UNCHANGED notSbVars
    \/ ChildWrites /\ UNCHANGED notSbVars
    \/ ChildRemoves /\ UNCHANGED notSbVars
    \/ RecordChanges /\ UNCHANGED notSbVars
\* The runs follow each other: callers serialize them.
SpecSandbox == InitSandbox /\ [][NextSandbox]_vars

notRunsVars ==
    <<descVars, snapVars, baseVars, polVars, dynVars, discVars, conVars, mainVars,
      probeVars, normVars, readVars, sbVars>>
InitRuns ==
    RunsInit /\ DescIdle /\ SnapIdle /\ BaseIdle /\ PolIdle /\ DynIdle /\ DiscIdle
        /\ ConIdle /\ MainIdle /\ ProbeIdle /\ NormIdle /\ ReadIdle /\ SbIdle
NextRuns ==
    \/ Invoke /\ UNCHANGED notRunsVars
    \/ BaselineStep /\ UNCHANGED notRunsVars
    \/ PolicyStep /\ UNCHANGED notRunsVars
\* The invocations follow each other on the same machine.
SpecRuns == InitRuns /\ [][NextRuns]_vars

\* ------------------------------------------------------------------ claims

\* C4: for every process table (self-parented and cyclic entries included)
\* and every root pid, _descendants terminates, and its result contains the
\* root and every record of the table whose parent pid is in the result.
DescendantsClosed ==
    dPc = "done" =>
        /\ root_pid \in out
        /\ \A i \in 1..Len(table) : table[i].ppid \in out => table[i].pid \in out

C4_DescendantsTerminatesClosed == <>(dPc = "done") /\ []DescendantsClosed

\* A finished call on a table with a self-parented record and a grandchild
\* of the root listed before its parent (a second pass is needed).
C4_Witness ==
    /\ dPc = "done"
    /\ \E i \in 1..Len(table) : table[i].pid = table[i].ppid
    /\ \E i, j \in 1..Len(table) :
          /\ j < i
          /\ table[i].ppid = root_pid
          /\ table[i].pid # root_pid
          /\ table[j].ppid = table[i].pid
          /\ table[j].pid \notin {root_pid, table[i].pid}
          /\ table[j].pid \in out

\* C5: created = keys(after) \ keys(before), removed = keys(before) \
\* keys(after), modified = the common keys whose (size, mtime) differs; the
\* three are pairwise disjoint, and all are empty when before = after.
C5_DiffSnapshots ==
    sPc = "done" =>
        LET c == Range(fileDiff.created)
            m == Range(fileDiff.modified)
            r == Range(fileDiff.removed)
        IN /\ c = DOMAIN after \ DOMAIN before
           /\ r = DOMAIN before \ DOMAIN after
           /\ m = {k \in Files : /\ k \in DOMAIN before
                                 /\ k \in DOMAIN after
                                 /\ \/ before[k].size # after[k].size
                                    \/ before[k].mtime_ns # after[k].mtime_ns}
           /\ c \cap m = {} /\ c \cap r = {} /\ m \cap r = {}
           /\ (before = after => c = {} /\ m = {} /\ r = {})

\* A diff with one file created, one modified by mtime alone.
C5_Witness ==
    /\ sPc = "done"
    /\ fileDiff.created # <<>>
    /\ \E k \in Range(fileDiff.modified) :
          before[k].size = after[k].size /\ before[k].mtime_ns # after[k].mtime_ns

\* C6: the BaselineDiff status is fail exactly when the removed set is
\* non-empty (pass otherwise), whatever the additions, the runtime change
\* and the hashes are.
C6_StatusFailIffRemoved ==
    bPc = "done" =>
        /\ baselineDiff.status \in {"pass", "fail"}
        /\ baselineDiff.status = "fail" <=> baselineDiff.removed # <<>>

\* A passing diff with additions, a changed runtime and a changed hash.
C6_Witness ==
    /\ bPc = "done"
    /\ baselineDiff.status = "pass"
    /\ baselineDiff.added # <<>>
    /\ baselineDiff.runtime_changed
    /\ baselineDiff.current_sha256 # baselineDiff.baseline_sha256

\* C7: added = current \ baseline and removed = baseline \ current over the
\* command strings; a contract compared with itself has neither and passes;
\* added and removed are disjoint; overlap_count + |added| = current_count
\* and overlap_count + |removed| = baseline_count.
C7_AddedRemovedSets ==
    bPc = "done" =>
        LET cs == IF "command_paths" \in DOMAIN cur
                  THEN {cur.command_paths[i] : i \in DOMAIN cur.command_paths}
                  ELSE {}
            bs == IF "command_paths" \in DOMAIN base
                  THEN {base.command_paths[i] : i \in DOMAIN base.command_paths}
                  ELSE {}
            a == Range(baselineDiff.added)
            r == Range(baselineDiff.removed)
        IN /\ a = {c \in Cmds : c \in cs /\ c \notin bs}
           /\ r = {c \in Cmds : c \in bs /\ c \notin cs}
           /\ Len(baselineDiff.added) = Cardinality(a)
           /\ Len(baselineDiff.removed) = Cardinality(r)
           /\ a \cap r = {}
           /\ (cur = base =>
                 a = {} /\ r = {} /\ baselineDiff.status = "pass")
           /\ baselineDiff.overlap_count + Cardinality(a) = baselineDiff.current_count
           /\ baselineDiff.overlap_count + Cardinality(r) = baselineDiff.baseline_count

\* A diff of two lists with repeated entries that adds one command and
\* removes another.
C7_Witness ==
    /\ bPc = "done"
    /\ baselineDiff.added # <<>>
    /\ baselineDiff.removed # <<>>
    /\ "command_paths" \in DOMAIN cur
    /\ Len(cur.command_paths) > baselineDiff.current_count

\* C8: the overall verdict is FAIL exactly when some finding has severity
\* fail; otherwise WARN exactly when the findings list is non-empty;
\* otherwise PASS.  The persisted finding_count is the length of the
\* findings list.
C8_VerdictAggregation ==
    pPc = "done" =>
        LET anyFail == \E i \in 1..Len(findings) : findings[i].severity = "fail"
        IN /\ verdictData.findings = findings
           /\ verdictData.finding_count = Len(findings)
           /\ verdictData.verdict \in {"PASS", "WARN", "FAIL"}
           /\ verdictData.verdict = "FAIL" <=> anyFail
           /\ ~anyFail => (verdictData.verdict = "WARN" <=> findings # <<>>)
           /\ ~anyFail /\ findings = <<>> => verdictData.verdict = "PASS"

\* A WARN verdict: findings, none of severity fail.
C8_Witness ==
    /\ pPc = "done"
    /\ verdictData.verdict = "WARN"
    /\ verdictData.finding_count = 1
    /\ findings[1].severity = "warn"

\* The rules and their finding codes, in the documented order.
RuleOrder ==
    <<"missing_required_commands", "denied_command_pattern", "too_many_created_files",
      "forbidden_file_path", "network_not_allowlisted", "network_denylisted",
      "removed_commands", "low_command_count">>

RuleRank(code) == CHOOSE i \in 1..Len(RuleOrder) : RuleOrder[i] = code

CountCode(code) == Cardinality({i \in 1..Len(findings) : findings[i].code = code})

\* The number of violations of each rule, read off the inputs.
ViolationCount(code) ==
    LET created == dynamic.file_changes.home.created \o dynamic.file_changes.work.created
        eps == dynamic.network_endpoints_observed
        Matches(key, v) == \E i \in 1..Len(policy[key]) : v \in policy[key][i]
    IN CASE code = "missing_required_commands" ->
              IF \E i \in 1..Len(policy.required_top_level_commands) :
                     \A j \in 1..Len(contract.top_level_commands) :
                         contract.top_level_commands[j] # policy.required_top_level_commands[i]
              THEN 1 ELSE 0
         [] code = "denied_command_pattern" ->
              Cardinality({i \in 1..Len(contract.command_paths) :
                              Matches("deny_command_patterns", contract.command_paths[i])})
         [] code = "too_many_created_files" ->
              IF "max_created_files" \in DOMAIN policy
                   /\ Len(created) > policy.max_created_files
              THEN 1 ELSE 0
         [] code = "forbidden_file_path" ->
              Cardinality({i \in 1..Len(created) :
                              Matches("forbid_file_path_patterns", created[i])})
         [] code = "network_not_allowlisted" ->
              IF policy.allow_network_endpoint_patterns = <<>> THEN 0
              ELSE Cardinality({i \in 1..Len(eps) :
                                   ~Matches("allow_network_endpoint_patterns", eps[i])})
         [] code = "network_denylisted" ->
              Cardinality({i \in 1..Len(eps) :
                              Matches("deny_network_endpoint_patterns", eps[i])})
         [] code = "removed_commands" ->
              IF /\ "block_if_removed_commands" \in DOMAIN policy
                 /\ policy.block_if_removed_commands
                 /\ "removed" \in DOMAIN compare
                 /\ compare.removed # <<>>
              THEN 1 ELSE 0
         [] code = "low_command_count" ->
              IF Len(contract.command_paths) < policy.min_command_count THEN 1 ELSE 0

FindingsComplete ==
    pPc = "done" =>
        /\ \A i \in 1..Len(findings) : findings[i].code \in Range(RuleOrder)
        /\ \A r \in 1..Len(RuleOrder) : CountCode(RuleOrder[r]) = ViolationCount(RuleOrder[r])

FindingsOrdered ==
    \A i, j \in 1..Len(findings) :
        i < j => RuleRank(findings[i].code) <= RuleRank(findings[j].code)

\* The control positions of an evaluation, in order.
RuleSteps ==
    <<"required", "deny_cmd", "max_created", "forbid_path", "allow_net", "deny_net",
      "removed", "min_count", "verdict", "done">>

\* A step of the evaluation moves to the next position, never past one.
NoRuleSkipped ==
    pPc' # pPc =>
        \E i \in 1..(Len(RuleSteps) - 1) : pPc = RuleSteps[i] /\ pPc' = RuleSteps[i + 1]

\* C9: every evaluation runs through all eight rules whatever the earlier
\* rules found, every violation becomes its own finding, and the findings
\* are ordered by rule in the documented order.
C9_AllRulesInOrder ==
    /\ [][NoRuleSkipped]_vars
    /\ <>(pPc = "done")
    /\ []FindingsComplete
    /\ []FindingsOrdered

\* An evaluation in which the first rule, rules in the middle and the last
\* rule all produced findings.
C9_Witness ==
    /\ pPc = "done"
    /\ Len(findings) >= 5
    /\ findings[1].code = "missing_required_commands"
    /\ CountCode("network_not_allowlisted") = 2
    /\ CountCode("removed_commands") = 1
    /\ findings[Len(findings)].code = "low_command_count"

\* The tick the supervisor is in found the child running (the poll check
\* passed) and read an elapsed time at or over the timeout.
OverdueTick == supPc \in {"observe", "check"} /\ elapsed >= timeout_s

\* The run is recorded as timed out, with the kill code, after exactly one
\* signal: one SIGKILL to the child's process group.
TimedOutRun ==
    /\ supPc = "done"
    /\ dynRun.timed_out
    /\ dynRun.exit_code = KillCode
    /\ signals = <<KillpgCall>>

\* Once timed_out is set the loop is over; a signal is only ever sent to
\* the group, once, by a timed out run; timed_out implies exit code -9.
TimeoutSafety ==
    /\ timed_out => supPc \in {"kill", "communicate", "record", "done"}
    /\ \A i \in 1..Len(signals) : signals[i] = KillpgCall
    /\ Len(signals) <= 1
    /\ signals # <<>> => timed_out
    /\ supPc = "done" => (dynRun.timed_out => dynRun.exit_code = KillCode)

C3_OwnExitAlwaysRecorded ==
    supPc = "done" /\ ~killedBySupervisor =>
        ~dynRun.timed_out /\ dynRun.exit_code = childStatus

\* C3 (amended): a child that ended by itself is recorded with timed_out =
\* false and its real exit status, in every interleaving but one: when it
\* exits after the poll check of a tick whose elapsed time is at or over the
\* timeout (before the group kill), the timeout rule applies and the run is
\* recorded as timed out with exit code -9.
C3_OwnExitRecordedUnlessOverdue ==
    supPc = "done" /\ ~killedBySupervisor =>
        IF exitInBody /\ elapsed >= timeout_s
        THEN dynRun.timed_out /\ dynRun.exit_code = KillCode
        ELSE ~dynRun.timed_out /\ dynRun.exit_code = childStatus

\* A child that exited with status 1 between the poll check and the group
\* kill of an overdue tick: the run is recorded as timed out, exit code -9.
C3_Witness ==
    /\ supPc = "done"
    /\ ~killedBySupervisor
    /\ exitInBody
    /\ childStatus = 1
    /\ dynRun.timed_out
    /\ dynRun.exit_code = KillCode

\* The traversal is over because the queue ran empty or because the budget
\* check broke the loop, and a CommandSurface has been returned.
SurfaceReturned ==
    qPc = "done" =>
        /\ surface.returned
        /\ queue = <<>> \/ dClock > total_timeout
        /\ surface.timed_out <=> queue # <<>>

PageOf(p) == IF KeyOf(p) \in DOMAIN helpOf THEN helpOf[KeyOf(p)] ELSE Rejected
HelpAccepted(p) == PageOf(p).first \in 1..Len(ProbesFor(p))
Parent(p) == SubSeq(p, 1, Len(p) - 1)
Advertised(p) ==
    /\ HelpAccepted(Parent(p))
    /\ p[Len(p)] \in Range(PageOf(Parent(p)).children)
\* every step from the root to p follows a child of an accepted help output
AdvertisedFromRoot(p) == \A i \in 1..Len(p) : Advertised(SubSeq(p, 1, i))

FirstTokens(S) == {c[1] : c \in S}

\* C10 as stated: with the budget not exhausted, command_paths is the set of
\* all paths of length 1..D reachable from the root by following the
\* children parsed from each accepted help output, and top_level_commands is
\* the set of first tokens of command_paths.
C10_AllAdvertisedPaths ==
    qPc = "done" /\ ~surface.timed_out =>
        /\ Range(surface.command_paths) =
              {p \in Range(PathOrder) : Len(p) <= max_depth /\ AdvertisedFromRoot(p)}
        /\ Range(surface.top_level_commands) = FirstTokens(Range(surface.command_paths))

\* C10 (amended): with the budget not exhausted, command_paths is the set
\* of all paths of length 1..D that are reachable from the root by following
\* the children parsed from each accepted help output and whose own help
\* probe is accepted; top_level_commands is the set of their first tokens.
C10_AcceptedAdvertisedPaths ==
    qPc = "done" /\ ~surface.timed_out =>
        /\ Range(surface.command_paths) =
              {p \in Range(PathOrder) :
                  Len(p) <= max_depth /\ AdvertisedFromRoot(p) /\ HelpAccepted(p)}
        /\ Len(surface.command_paths) = Cardinality(Range(surface.command_paths))
        /\ Range(surface.top_level_commands) = FirstTokens(Range(surface.command_paths))
        /\ Len(surface.top_level_commands) = Cardinality(Range(surface.top_level_commands))

\* The documented example: the root advertises foo and bar, foo advertises
\* baz, the maximum depth is 2, and bar and foo baz answer their probes with
\* help text.
DocumentedExample ==
    /\ qPc = "done"
    /\ ~surface.timed_out
    /\ max_depth = 2
    /\ helpOf[RootKey].children = <<"foo", "bar">>
    /\ helpOf["foo"].children = <<"baz">>
    /\ surface.command_paths = << <<"bar">>, <<"foo">>, <<"foo", "baz">> >>
    /\ surface.top_level_commands = <<"bar", "foo">>

\* The same binary, except that bar answers none of its probes with help
\* text: bar is advertised by the root and missing from the surface.
C10_Witness ==
    /\ qPc = "done"
    /\ ~surface.timed_out
    /\ max_depth = 2
    /\ helpOf[RootKey].children = <<"foo", "bar">>
    /\ helpOf["foo"].children = <<"baz">>
    /\ ~HelpAccepted(<<"bar">>)
    /\ <<"bar">> \in visited
    /\ surface.command_paths = << <<"foo">>, <<"foo", "baz">> >>
    /\ surface.top_level_commands = <<"foo">>

\* A step that appends to the queue is the probe step of a path whose
\* token count is strictly below the maximum depth.
EnqueueOnlyBelowDepth ==
    Len(queue') > Len(queue) => qPc = "probe" /\ Len(path) < max_depth

\* Every queued, visited or reported command path has at most D tokens, and
\* so has the surface that is returned.
DepthBounded ==
    /\ \A p \in Range(queue) \cup visited \cup commands : Len(p) <= max_depth
    /\ qPc = "done" =>
          /\ \A c \in Range(surface.command_paths) : Len(c) <= max_depth
          /\ Len(surface.command_paths) = Cardinality(commands)
          /\ surface.max_depth <= max_depth
          /\ max_depth = 0 => surface.command_paths = <<>>

\* C11: children of a dequeued path are enqueued only when the path has
\* strictly fewer than D tokens; in every reachable state every queued,
\* visited or reported command path has at most D tokens, and the reported
\* max_depth is at most D (with D = 0 no command path is reported).
C11_DepthLimit == [][EnqueueOnlyBelowDepth]_vars /\ []DepthBounded

\* A finished traversal with D = 1 in which foo, at depth 1, advertises
\* children that were never enqueued.
C11_Witness ==
    /\ qPc = "done"
    /\ max_depth = 1
    /\ <<"foo">> \in commands
    /\ helpOf["foo"].children # <<>>
    /\ surface.max_depth = 1
    /\ \A p \in visited : Len(p) <= 1

\* How the loop of a finished traversal ended: by the budget check, with
\* paths left in the queue, or by the queue running empty.
StoppedByBudget == qPc = "done" /\ queue # <<>> /\ dClock > total_timeout
StoppedByEmptyQueue == qPc = "done" /\ queue = <<>>

\* C12: the returned CommandSurface has timed_out = true if and only if the
\* traversal stopped because the elapsed time exceeded T, leaving queue
\* entries unprocessed; it has timed_out = false when the queue ran empty;
\* in both cases the surface holds what was accumulated so far.
C12_TimedOutIffBudget ==
    qPc = "done" =>
        /\ StoppedByBudget \/ StoppedByEmptyQueue
        /\ surface.timed_out <=> StoppedByBudget
        /\ StoppedByEmptyQueue => ~surface.timed_out
        /\ Range(surface.command_paths) = commands
        /\ surface.help_sections = sections
        /\ Range(surface.probe_kinds) = probes
        /\ {sections[i].path : i \in 1..Len(sections)} \ {<<>>} = commands

\* A traversal the budget check stopped after foo was reported, with paths
\* still queued.
C12_Witness ==
    /\ StoppedByBudget
    /\ surface.timed_out
    /\ surface.command_paths # <<>>
    /\ \E i \in 1..Len(queue) : queue[i] \notin visited

\* The member of a persisted JSON object with the given key, if any.
HasMember(file, key) == \E i \in 1..Len(file) : file[i].key = key
Member(file, key) == (CHOOSE i \in 1..Len(file) : file[i].key = key)

\* The persisted contract tells a discovery that timed out from one that
\* did not: it is not the file the same build writes for the same surface
\* with the flag the other way.
TimedOutRecorded(file) ==
    file # JsonDumps(Contract(static_data,
                              [surface EXCEPT !.timed_out = ~surface.timed_out],
                              dynamic_data,
                              file[Member(file, "generated_at")].value))

\* C13: whenever discovery stops because the time budget was exhausted, the
\* contract built from it records the discovery's timed_out flag and the
\* depth reached.
C13_ExhaustionRecorded ==
    \A i \in 1..Len(contractFiles) :
        surface.timed_out =>
            /\ TimedOutRecorded(contractFiles[i])
            /\ HasMember(contractFiles[i], "max_depth")
            /\ contractFiles[i][Member(contractFiles[i], "max_depth")].value
                   = surface.max_depth

\* A contract built from a discovery that the budget check stopped: it
\* holds the depth reached and no timed_out member of its own.
C13_Witness ==
    /\ StoppedByBudget
    /\ surface.timed_out
    /\ Len(contractFiles) >= 1
    /\ ~HasMember(contractFiles[1], "timed_out")
    /\ HasMember(contractFiles[1], "max_depth")

\* C14: two builds of the contract from the same static facts, the same
\* CommandSurface and the same DynamicRun, at any two points in time, persist
\* the same bytes.
C14_BuildsByteIdentical ==
    \A i, j \in 1..Len(contractFiles) : contractFiles[i] = contractFiles[j]

\* Two builds from the same inputs, a second apart: the files differ, in
\* generated_at and nowhere else.
C14_Witness ==
    /\ Len(contractFiles) = 2
    /\ contractFiles[1] # contractFiles[2]
    /\ Len(contractFiles[1]) = Len(contractFiles[2])
    /\ \A k \in 1..Len(contractFiles[1]) :
          contractFiles[1][k].key # "generated_at" =>
              contractFiles[1][k] = contractFiles[2][k]

\* The binary is missing for a subcommand that takes it.
BinaryMissing == args_cmd \in BinaryCommands /\ ~world.binary_ok

\* The policy was evaluated with verdict FAIL; a gate of `run` that is
\* switched on found what it guards against.
VerdictFail == "policy" \in artifacts /\ world.verdict = "FAIL"
GateFailed ==
    \/ opts.baseline_dir /\ opts.fail_on_removed /\ "compare" \in artifacts /\ world.removed
    \/ opts.policy_file /\ opts.fail_on_policy_fail /\ VerdictFail

\* The exit status the contract gives a finished invocation.
ContractStatus ==
    IF BinaryMissing THEN 2
    ELSE IF args_cmd = "enforce-policy" /\ VerdictFail THEN 3
    ELSE IF args_cmd = "run" /\ GateFailed THEN 4
    ELSE 0

\* C15: the exit status is 2 whenever the binary is missing for
\* collect-static, collect-dynamic, collect-contract or run; 3 exactly when
\* the enforce-policy verdict is FAIL; 4 exactly when a gate of the composed
\* run fails; 0 otherwise.
C15_ExitStatusContract == mPc = "exit" => exitStatus = ContractStatus

\* The same, for the invocations in which no stage raises.
ExitStatusUnlessRaised ==
    mPc = "exit" /\ exitStatus # UncaughtStatus => exitStatus = ContractStatus

\* enforce-policy with a policy file that cannot be loaded: the process
\* ends with the interpreter's status for an uncaught exception.
C15_Witness ==
    /\ mPc = "exit"
    /\ args_cmd = "enforce-policy"
    /\ ~world.policy_ok
    /\ exitStatus = UncaughtStatus
    /\ ContractStatus = 0

\* C16: when the binary does not exist as a dynamic run is requested, the
\* invocation ends at once with status 2, which nothing else returns: no
\* child is launched, the dynamic stage is never entered and no
\* dynamic-analysis record is written; a child that cannot be launched
\* leaves no record either.
C16_MissingBinaryNoRun ==
    /\ args_cmd \in {"collect-dynamic", "run"} /\ ~world.binary_ok =>
          /\ mPc \in {"check", "exit"}
          /\ ~launched
          /\ artifacts = {}
          /\ mPc = "exit" => exitStatus = 2
    /\ mPc = "exit" /\ exitStatus = 2 => BinaryMissing
    /\ world.dynamic = "popen_raises" => ~launched /\ "dynamic" \notin artifacts

\* collect-dynamic on a missing binary, finished.
C16_Witness ==
    /\ mPc = "exit"
    /\ args_cmd = "collect-dynamic"
    /\ ~world.binary_ok
    /\ exitStatus = 2
    /\ ~launched
    /\ artifacts = {}

\* A configuration error of the composed run: a baseline or a policy that
\* is asked for and cannot be loaded.
ConfigurationError ==
    \/ opts.baseline_dir /\ ~world.contracts_ok
    \/ opts.policy_file /\ ~world.policy_ok

\* C17: in the composed run, a failure of discovery never keeps the dynamic
\* run from being recorded, a failure of the dynamic stage never keeps
\* discovery and the contract from being completed, and only configuration
\* errors abort the process.
C17_FacetsIsolated ==
    args_cmd = "run" /\ world.binary_ok /\ ~world.static_raises /\ mPc = "exit" =>
        /\ world.discovery_raises /\ world.dynamic = "ok" => "dynamic" \in artifacts
        /\ world.dynamic # "ok" /\ ~world.discovery_raises => "contract" \in artifacts
        /\ exitStatus = UncaughtStatus => ConfigurationError

\* The half of it that holds: the dynamic run is recorded before discovery
\* starts.
DynamicRecordedBeforeDiscovery ==
    args_cmd = "run" /\ mPc \in {"contract", "baseline", "gate", "summary"} =>
        "dynamic" \in artifacts

\* A composed run whose child's output cannot be decoded: the process is
\* aborted before discovery, which would have succeeded, and no contract is
\* built.
C17_Witness ==
    /\ mPc = "exit"
    /\ args_cmd = "run"
    /\ world.binary_ok
    /\ world.dynamic = "communicate_raises"
    /\ ~world.discovery_raises
    /\ ~ConfigurationError
    /\ launched
    /\ artifacts = {"static"}
    /\ exitStatus = UncaughtStatus

\* The findings of the allowlist rule about one endpoint.
NotAllowlisted(ep) ==
    {i \in 1..Len(findings) :
        findings[i].code = "network_not_allowlisted" /\ findings[i].subject = <<ep>>}

Observed == Range(dynamic.network_endpoints_observed)

AllowedEndpoint(ep) ==
    \E i \in 1..Len(policy.allow_network_endpoint_patterns) :
        ep \in policy.allow_network_endpoint_patterns[i]

\* C18: with a non-empty allowlist, every observed endpoint that matches no
\* allow pattern has exactly one finding network_not_allowlisted, of
\* severity fail, and an endpoint that matches one has none; with an empty
\* allowlist the rule yields no finding whatever was observed.
C18_NetworkAllowlist ==
    pPc = "done" =>
        /\ \A i \in 1..Len(findings) :
               findings[i].code = "network_not_allowlisted" =>
                   /\ findings[i].severity = "fail"
                   /\ \E ep \in Observed : findings[i].subject = <<ep>>
        /\ policy.allow_network_endpoint_patterns # <<>> =>
               \A ep \in Observed :
                   Cardinality(NotAllowlisted(ep)) = IF AllowedEndpoint(ep) THEN 0 ELSE 1
        /\ policy.allow_network_endpoint_patterns = <<>> =>
               CountCode("network_not_allowlisted") = 0

\* A non-empty allowlist met two endpoints it does not allow: two findings.
C18_Witness ==
    /\ pPc = "done"
    /\ policy.allow_network_endpoint_patterns # <<>>
    /\ Cardinality({ep \in Observed : ~AllowedEndpoint(ep)}) = 2
    /\ CountCode("network_not_allowlisted") = 2

\* The required top-level commands the contract does not have.
MissingRequired ==
    {c \in Range(policy.required_top_level_commands) :
        c \notin Range(contract.top_level_commands)}

\* C19: when at least one required top-level command is absent from the
\* contract there is exactly one finding missing_required_commands, however
\* many are absent, and the verdict is FAIL; when none is absent there is no
\* such finding.
C19_RequiredCommands ==
    pPc = "done" =>
        /\ MissingRequired # {} =>
               /\ CountCode("missing_required_commands") = 1
               /\ verdictData.verdict = "FAIL"
        /\ MissingRequired = {} => CountCode("missing_required_commands") = 0

\* Two required commands are absent and the evaluation has one finding for them.
C19_Witness ==
    /\ pPc = "done"
    /\ Cardinality(MissingRequired) = 2
    /\ CountCode("missing_required_commands") = 1
    /\ verdictData.verdict = "FAIL"

LowCommandCount == Len(contract.command_paths) < policy.min_command_count

\* C20: a command count below min_command_count yields one finding
\* low_command_count of severity warn, never fail, and the verdict is WARN
\* when no other rule is violated; no other finding has severity warn, so a
\* WARN verdict means the findings are exactly that one finding.
C20_MinCommandCountWarns ==
    pPc = "done" =>
        /\ CountCode("low_command_count") = IF LowCommandCount THEN 1 ELSE 0
        /\ \A i \in 1..Len(findings) :
               findings[i].severity = "warn" <=> findings[i].code = "low_command_count"
        /\ (LowCommandCount /\ \A c \in Range(RuleOrder) :
                c # "low_command_count" => ViolationCount(c) = 0)
               => verdictData.verdict = "WARN"
        /\ verdictData.verdict = "WARN" =>
               /\ Len(findings) = 1
               /\ findings[1].code = "low_command_count"
               /\ findings[1].severity = "warn"

\* A policy whose only violated rule is the minimum command count: WARN.
C20_Witness ==
    /\ pPc = "done"
    /\ LowCommandCount
    /\ verdictData.verdict = "WARN"
    /\ verdictData.findings = <<Finding("warn", "low_command_count", <<>>)>>

\* The four probe variants of a path as documented, and their kinds.
DocumentedVariants(p) ==
    <<p \o <<"--help">>, p \o <<"-h">>, <<"help">> \o p, p \o <<"help">>>>
DocumentedKinds == <<"--help", "-h", "help-prefix", "help-suffix">>

IsPrefix(a, b) == Len(a) <= Len(b) /\ \A i \in 1..Len(a) : a[i] = b[i]

\* The probes run so far are the documented variants, in their order, and an
\* accepted probe is the last one run.
ProbeOrderKept ==
    /\ IsPrefix(probe_runs, DocumentedVariants(probe_path))
    /\ probe_ret.ok => probePc = "done" /\ LooksLikeHelp(probe_txt)
    /\ probePc = "done" => Len(probe_runs) = IF probe_ret.ok THEN probe_idx
                                             ELSE Len(Probes(probe_path))

\* C21: for every path, the root included, the probes run are the variants
\* <path> --help, <path> -h, help <path>, <path> help in that order, none
\* runs after an accepted one, and the kind recorded for an accepted probe
\* is the one of the documented four that belongs to the variant accepted.
C21_ProbeVariantsInOrder ==
    /\ ProbeOrderKept
    /\ probe_ret.ok =>
           /\ probe_ret.probe \in Range(DocumentedKinds)
           /\ probe_ret.probe = DocumentedKinds[Len(probe_runs)]

\* The root answered its third probe, `help`, with help output.
C21_Witness ==
    /\ probePc = "done"
    /\ probe_path = <<>>
    /\ probe_ret.ok
    /\ probe_runs = <<<<"--help">>, <<"-h">>, <<"help">>>>
    /\ probe_ret.probe = "help"

\* str.lower on the words of the universe
Lower(w) ==
    CASE w \in {"Usage", "usage", "USAGE"} -> "usage"
      [] w \in {"Commands", "commands"} -> "commands"
      [] w = "Subcommands" -> "subcommands"
      [] w \in {"Flags", "flags"} -> "flags"
      [] w \in {"Options", "OPTIONS"} -> "options"
      [] OTHER -> w

\* The text holds one of the markers Usage, Commands, Flags, Options in some
\* letter case ("subcommands" holds "commands").
HasMarkerAnyCase(txt) ==
    \E w \in txt : Lower(w) \in {"usage", "commands", "subcommands", "flags", "options"}

\* C22: the output of a probe is accepted as help output if and only if it
\* holds one of the markers Usage, Commands, Flags, Options in any letter
\* case.
C22_AcceptedIffMarker ==
    probe_runs # <<>> => (probe_ret.ok <=> HasMarkerAnyCase(probe_txt))

\* An error message that mentions the word help, and no marker, is accepted.
C22_Witness ==
    /\ probePc = "done"
    /\ probe_ret.ok
    /\ probe_txt = {"error", "help"}

\* A step that finds no probe of the path accepted leaves the reported
\* commands and the queue as they are.
RejectedNodeContributesNothing ==
    (qPc = "probe" /\ ~ProbeHelp(path, helpOf'[KeyOf(path)]).ok)
        => UNCHANGED <<commands, queue, sections, probes>>

RejectedContributesNothing == [][RejectedNodeContributesNothing]_vars

\* A token as documented: it does not begin with "-", it is no stopword in
\* any letter case, and all of it has the identifier shape.
WellFormedToken(t) ==
    /\ t # <<>>
    /\ t[1] # "-"
    /\ LowerStr(t) \notin Stopwords
    /\ t[1] \in Letters
    /\ \A i \in 1..Len(t) : t[i] \in Letters \cup {"-", "."}

ParsedTokensWellFormed ==
    nPc \in {"parsed", "reparsed"} =>
        /\ norm # None => WellFormedToken(norm)
        /\ nPc = "reparsed" => renorm = norm

\* A step never takes anything out of the cumulative sets.
ObservedOnlyGrow ==
    /\ seen_pids \subseteq seen_pids'
    /\ seen_cmds \subseteq seen_cmds'
    /\ seen_eps \subseteq seen_eps'

\* The recorded run lists the cumulative sets.
RunHoldsObserved ==
    supPc = "done" =>
        /\ Range(dynRun.pids_observed) = seen_pids
        /\ Range(dynRun.processes_observed) = seen_cmds
        /\ Range(dynRun.network_endpoints_observed) = seen_eps

\* Once the observation of a first tick is made the child's pid is observed,
\* and the descendants of the last tick are among the observed pids.
RootObserved ==
    /\ pids \subseteq seen_pids
    /\ (ticks >= 1 /\ supPc \notin {"elapsed", "observe"}) => ChildPid \in seen_pids

\* C24: over the ticks of a run the observed pids, command lines and
\* endpoints only grow, the recorded run holds all of them, also when the
\* descendants of a later tick are fewer, and after a first tick the
\* observed pids hold the child's pid.
C24_ObservedSetsGrow ==
    /\ [][ObservedOnlyGrow]_vars
    /\ []RunHoldsObserved
    /\ []RootObserved

\* The last tick saw the child alone; the run records the descendants, the
\* shell and the endpoints of the earlier ticks.
C24_Witness ==
    /\ supPc = "done"
    /\ ticks >= 2
    /\ pids = {ChildPid}
    /\ dynRun.pids_observed = <<1, 2, 3>>
    /\ dynRun.processes_observed = <<"sh", "tool">>
    /\ dynRun.network_endpoints_observed = <<"ep1", "ep2">>

\* The table read of the tick failed: ps is missing, it timed out, or its
\* output could not be read or held no line that parses.
FailedRead ==
    \/ read.kind \in {"ps_missing", "timeout", "undecodable"}
    \/ read.kind = "ran" /\ read.rows = 0

\* After a failed read the tick observes the child's pid alone.
FailedReadObservesRoot ==
    (supPc = "check" /\ FailedRead) => pids = {ChildPid}

\* The tick of a failed read goes on to its timeout check, and from there
\* to the kill or to the next poll.
FailedReadTickContinues ==
    /\ (read.kind # "none" /\ supPc \in {"table", "raised"}) ~> (supPc = "check")
    /\ (supPc = "check") ~> (supPc \in {"poll", "communicate"})

\* C25: a failed table read never ends or aborts the polling loop: the tick
\* observes no descendant beyond the child's pid, what was accumulated is
\* kept, the timeout check of the tick runs and polling goes on.
C25_FailedReadTolerated ==
    /\ [](supPc # "raised")
    /\ []FailedReadObservesRoot
    /\ [][ObservedOnlyGrow]_vars
    /\ FailedReadTickContinues

\* The read raised on a later tick with the child running: the loop is
\* left without a timeout check.
C25_Witness ==
    /\ supPc = "raised"
    /\ read.kind = "undecodable"
    /\ ticks >= 2
    /\ childState = "running"
    /\ seen_pids # {}

\* The failed reads that return a table leave the loop running, and a read
\* that found ps missing or nothing to parse observes the child alone.
ReturnedReadsTolerated ==
    /\ [][(supPc = "table" /\ supPc' # "table") => supPc' = "check"]_vars
    /\ []((supPc = "check" /\ read.rows = 0) => pids = {ChildPid})
    /\ [][ObservedOnlyGrow]_vars
    /\ (supPc = "table") ~> (supPc = "check")
    /\ (supPc = "check") ~> (supPc \in {"poll", "communicate"})

\* ps timed out after printing the child and a descendant of it: the tick
\* observes the descendant.
PartialOutputObserved ==
    /\ supPc = "check"
    /\ read.kind = "timeout"
    /\ pids = {1, 2}

\* The files the run's sandbox holds when its changes are recorded.
LeftBehind(t) == Sorted(FileOrder, DOMAIN disk[out_dir][t])

\* C26: every run starts in a fresh sandbox: when the child is launched the
\* home and work directories hold no file of an earlier run (the snapshots
\* taken before are empty), whatever runs came before and in whichever
\* output directory; so the files a run leaves behind are all reported as
\* created, none as modified.
C26_FreshSandbox ==
    /\ sbPc \in {"running", "done"} => before_home = <<>> /\ before_work = <<>>
    /\ sbPc = "done" =>
           \A t \in Trees :
               /\ file_changes[t].created = LeftBehind(t)
               /\ file_changes[t].modified = <<>>
               /\ file_changes[t].removed = <<>>

\* A second run on the same output directory rewrote the file the first run
\* had left in home: it is reported as modified, and nothing as created.
C26_Witness ==
    /\ sbPc = "done"
    /\ Len(launches) = 2
    /\ launches[1].out_dir = launches[2].out_dir
    /\ before_home # <<>>
    /\ file_changes.home.modified = <<"a.txt">>
    /\ file_changes.home.created = <<>>

\* C27: the child's environment holds exactly PATH, HOME, TMPDIR and LANG,
\* and two runs on the same output directory launch the child with the same
\* environment whatever the caller's environment is.
C27_EnvironmentFixed ==
    \A i, j \in 1..Len(launches) :
        /\ DOMAIN launches[i].env = {"PATH", "HOME", "TMPDIR", "LANG"}
        /\ launches[i].out_dir = launches[j].out_dir => launches[i].env = launches[j].env

\* Two runs on one output directory, from callers with different PATHs: the
\* children are launched with different PATHs.
C27_Witness ==
    /\ Len(launches) = 2
    /\ launches[1].out_dir = launches[2].out_dir
    /\ launches[1].env.PATH = "/opt/a/bin"
    /\ launches[2].env.PATH = "/opt/b/bin"
    /\ launches[1].env.HOME = launches[2].env.HOME

\* Apart from PATH the child's environment is fixed by the output directory,
\* and of the caller's environment PATH alone is read.
OnlyPathFlows ==
    \A i, j \in 1..Len(launches) :
        /\ DOMAIN launches[i].env = {"PATH", "HOME", "TMPDIR", "LANG"}
        /\ launches[i].out_dir = launches[j].out_dir =>
               \A v \in {"HOME", "TMPDIR", "LANG"} : launches[i].env[v] = launches[j].env[v]
        /\ launches[i].env.PATH \in {DEFAULT_PATH, "/opt/a/bin", "/opt/b/bin"}

\* The policy turns the removed-commands gate on.
BlockIfRemoved ==
    "block_if_removed_commands" \in DOMAIN policy /\ policy.block_if_removed_commands

\* The baseline diff of the run directory lists removed commands.
DiffHasRemoved == "removed" \in DOMAIN compare /\ compare.removed # <<>>

\* C28: the evaluation holds a finding removed_commands, one, of severity
\* fail, if and only if the policy sets block_if_removed_commands and the
\* baseline diff lists removed commands; with the flag false or absent there
\* is none whatever the diff holds.
C28_RemovedCommandsGate ==
    pPc = "done" =>
        /\ CountCode("removed_commands") = IF BlockIfRemoved /\ DiffHasRemoved THEN 1 ELSE 0
        /\ \A i \in 1..Len(findings) :
               findings[i].code = "removed_commands" => findings[i].severity = "fail"
        /\ ~BlockIfRemoved => CountCode("removed_commands") = 0

\* The flag is set and the diff lists a removed command: the finding is
\* there and the verdict is FAIL.
C28_Witness ==
    /\ pPc = "done"
    /\ BlockIfRemoved
    /\ DiffHasRemoved
    /\ CountCode("removed_commands") = 1
    /\ verdictData.verdict = "FAIL"

\* C29: the removed-commands gate consults only a baseline diff computed by
\* the same invocation: whatever invocations came before on the output
\* directory, an invocation without a baseline has no finding
\* removed_commands.
C29_GateUsesOwnDiff ==
    \A i \in 1..Len(removed_findings) :
        ~removed_findings[i].baseline => ~removed_findings[i].finding

\* A run with a baseline left a diff with a removed command; the next run
\* on the directory, without a baseline, has the finding.
C29_Witness ==
    /\ Len(removed_findings) = 2
    /\ removed_findings[1].out_dir = removed_findings[2].out_dir
    /\ removed_findings[1].baseline
    /\ ~removed_findings[2].baseline
    /\ removed_findings[2].finding

\* A finding stems from a diff that this or an earlier invocation on the
\* same output directory computed.
FindingHasSomeDiff ==
    \A i \in 1..Len(removed_findings) :
        removed_findings[i].finding =>
            \E j \in 1..i : /\ removed_findings[j].out_dir = removed_findings[i].out_dir
                            /\ removed_findings[j].baseline

\* Every path of S answered its own help probe with help text and is a
\* child parsed from the accepted help output of its parent, and S holds
\* every non-empty proper prefix of its paths.
ProbeConfirmed(S) ==
    \A p \in S :
        /\ p # <<>>
        /\ HelpAccepted(p)
        /\ Advertised(p)
        /\ \A i \in 1..(Len(p) - 1) : SubSeq(p, 1, i) \in S

\* A path goes to its probes only when it was not visited before, and a
\* visited path stays visited: no path is probed twice.
ProbedOnce ==
    /\ visited \subseteq visited'
    /\ qPc = "loop" /\ qPc' = "probe" => path' \notin visited /\ path' \in visited'

\* C30: in every state of the traversal the command set, and the
\* command_paths of the returned surface, are prefix-closed and
\* probe-confirmed, and each command path is probed at most once.
C30_PrefixClosedProbeConfirmed ==
    /\ [](ProbeConfirmed(commands)
          /\ (surface.returned => ProbeConfirmed(Range(surface.command_paths))))
    /\ [][ProbedOnce]_vars

\* A finished traversal that reports a command of two tokens and probed a
\* command that it does not report.
C30_Witness ==
    /\ qPc = "done"
    /\ \E c \in Range(surface.command_paths) : Len(c) = 2
    /\ \E v \in visited : v # <<>> /\ v \notin commands

====
